---- MODULE Spec2Model ----
(***************************************************************************)
(* Model of the JSON-RPC dispatch core of the MCP server:                  *)
(*   - McpServer.handle_request and McpServer.run (src/mcp/server.py)      *)
(*   - MCPHTTPBridge.forward_request and MCPHTTPBridge.handle_stdio        *)
(*     (src/cursor-integration/mcp-http-bridge.py)                         *)
(*                                                                         *)
(* Text is a sequence of tokens.  A token is one structural character of   *)
(* JSON ("{", "}", "[", "]", a digit, a blank, a line feed) or the member  *)
(* list of one request object.  A JSON object is a function from the names *)
(* of the members it has to their values, so that dict.get can be modelled *)
(* with its default.                                                       *)
(***************************************************************************)
EXTENDS Integers, Sequences, FiniteSets, TLC

\* ------------------------------------------------------------------------
\* Bounds of the model
\* ------------------------------------------------------------------------
\* number of pieces of text the client writes to the stdin of the process
MaxPieces == 3
\* the same for the stdin of the bridge
MaxBridgePieces == 2

\* ------------------------------------------------------------------------
\* Tokens
\* ------------------------------------------------------------------------
LBrace == "{"
RBrace == "}"
LBrack == "["
RBrack == "]"
Digit  == "7"
Space  == " "
NL     == "\n"

\* str.lstrip() and the scanner of json treat these as whitespace
Whitespace == {Space, NL}

\* Python's None (what dict.get returns for a missing key, and JSON null)
None == "py:None"

\* member lists of the request objects the client of the read loop sends
BodyTokens == {"b_list", "b_nope", "b_badcall"}

\* the dict that json builds from a member list
BodyOf(t) ==
  CASE t = "b_list"    -> [id |-> "str:a", method |-> "tools/list", params |-> {}]
    [] t = "b_nope"    -> [id |-> "int:2", method |-> "nope"]
    [] t = "b_badcall" -> [id |-> None, method |-> "tools/call"]

\* ------------------------------------------------------------------------
\* json.JSONDecoder.raw_decode and str.lstrip
\* ------------------------------------------------------------------------
RECURSIVE WsEnd(_, _)
\* index of the first token at or after i that is not whitespace
WsEnd(buf, i) ==
  IF i <= Len(buf) /\ buf[i] \in Whitespace THEN WsEnd(buf, i + 1) ELSE i

RECURSIVE DigitsEnd(_, _)
\* index of the first token at or after i that is not a digit
DigitsEnd(buf, i) ==
  IF i <= Len(buf) /\ buf[i] = Digit THEN DigitsEnd(buf, i + 1) ELSE i

NoValue == [ok |-> FALSE]

DecodeObject(buf) ==
  LET j == WsEnd(buf, 2) IN
  IF j > Len(buf) THEN NoValue
  ELSE IF buf[j] = RBrace
    THEN [ok |-> TRUE, obj |-> [kind |-> "object", members |-> <<>>], idx |-> j]
  ELSE IF buf[j] \in BodyTokens
    THEN LET k == WsEnd(buf, j + 1) IN
         IF k <= Len(buf) /\ buf[k] = RBrace
           THEN [ok |-> TRUE,
                 obj |-> [kind |-> "object", members |-> BodyOf(buf[j])],
                 idx |-> k]
           ELSE NoValue
  ELSE NoValue

DecodeArray(buf) ==
  LET j == WsEnd(buf, 2) IN
  IF j > Len(buf) THEN NoValue
  ELSE IF buf[j] = RBrack
    THEN [ok |-> TRUE, obj |-> [kind |-> "array", size |-> 0], idx |-> j]
  ELSE IF buf[j] = Digit
    THEN LET k == WsEnd(buf, DigitsEnd(buf, j)) IN
         IF k <= Len(buf) /\ buf[k] = RBrack
           THEN [ok |-> TRUE, obj |-> [kind |-> "array", size |-> 1], idx |-> k]
           ELSE NoValue
  ELSE NoValue

\* raw_decode(buffer): the value that starts at the first token and the
\* number of tokens it spans, or JSONDecodeError (NoValue).  raw_decode does
\* not skip whitespace in front of the value.
raw_decode(buf) ==
  IF buf = <<>> THEN NoValue
  ELSE IF buf[1] = LBrace THEN DecodeObject(buf)
  ELSE IF buf[1] = LBrack THEN DecodeArray(buf)
  ELSE IF buf[1] = Digit
    THEN LET d == DigitsEnd(buf, 1) IN
         [ok |-> TRUE, obj |-> [kind |-> "number", digits |-> d - 1], idx |-> d - 1]
  ELSE NoValue

\* buffer[idx:]
Slice(buf, idx) == SubSeq(buf, idx + 1, Len(buf))

\* str.lstrip()
lstrip(buf) == SubSeq(buf, WsEnd(buf, 1), Len(buf))

\* ------------------------------------------------------------------------
\* Python values
\* ------------------------------------------------------------------------
\* dict.get(key, default)
Get(d, key, default) == IF key \in DOMAIN d THEN d[key] ELSE default

\* str(x) as an f-string formats it
Str(x) == IF x = None THEN "None" ELSE x

\* JSON-RPC error codes
MethodNotFound == -32601
InternalError  == -32603

\* ------------------------------------------------------------------------
\* McpServer: the four handler slots and handle_request
\* ------------------------------------------------------------------------
DefinedMethods == {"tools/list", "tools/call", "resources/list", "resources/read"}

\* McpServer.__init__: no handler is registered
NoHandlers ==
  [tools_handler |-> None, call_tool_handler |-> None,
   resources_handler |-> None, read_resource_handler |-> None]

\* MCPLocalLLMServer.setup_handlers: the four decorators have run
BaseHandlers ==
  [tools_handler |-> "handle_list_tools", call_tool_handler |-> "handle_call_tool",
   resources_handler |-> "handle_list_resources",
   read_resource_handler |-> "handle_read_resource"]

\* the slot handle_request reads for a defined method
HandlerSlot(method) ==
  CASE method = "tools/list"     -> "tools_handler"
    [] method = "tools/call"     -> "call_tool_handler"
    [] method = "resources/list" -> "resources_handler"
    [] method = "resources/read" -> "read_resource_handler"

\* the pydantic result type a handler of the method returns
ResultType(method) ==
  CASE method = "tools/list"     -> "ListToolsResult"
    [] method = "tools/call"     -> "CallToolResult"
    [] method = "resources/list" -> "ListResourcesResult"
    [] method = "resources/read" -> "GetResourceResult"

\* CallToolRequest(params=params) / GetResourceRequest(params=params): the
\* pydantic validation of the params (a dict is known by the keys it has)
ParamsValid(method, params) ==
  CASE method = "tools/call"     -> {"name", "arguments"} \subseteq params
    [] method = "resources/read" -> "uri" \in params
    [] OTHER                     -> TRUE

\* a slip: the error envelope is built without the id of the request
ErrorResponseNoEcho(request_id, code, message) ==
  [jsonrpc |-> "2.0", id |-> None,
   error |-> [code |-> code, message |-> message]]

ErrorResponse(request_id, code, message) ==
  [jsonrpc |-> "2.0", id |-> request_id,
   error |-> [code |-> code, message |-> message]]

\* a slip: the result envelope also carries an (empty) error member
ResultResponseWithError(request_id, result) ==
  [jsonrpc |-> "2.0", id |-> request_id, result |-> result, error |-> None]

ResultResponse(request_id, result) ==
  [jsonrpc |-> "2.0", id |-> request_id, result |-> result]

\* what a handler does when it is called
HandlerOutcomes == {"returns", "raises"}

\* a slip: an unknown method falls into the answer for an internal error
handle_request_fallthrough(request, hs, hout) ==
  IF request.kind # "object"
    THEN [raised |-> TRUE, fault |-> "AttributeError", called |-> None]
  ELSE
    LET method     == Get(request.members, "method", None)
        params     == Get(request.members, "params", {})
        request_id == Get(request.members, "id", None)
    IN
    IF method \in DefinedMethods /\ hs[HandlerSlot(method)] # None
      THEN IF ~ParamsValid(method, params)
             THEN [raised |-> FALSE, called |-> None,
                   response |-> ErrorResponse(request_id, InternalError,
                                  <<"Internal error: ", "ValidationError">>)]
           ELSE IF hout = "raises"
             THEN [raised |-> FALSE, called |-> hs[HandlerSlot(method)],
                   response |-> ErrorResponse(request_id, InternalError,
                                  <<"Internal error: ", "handler fault">>)]
           ELSE [raised |-> FALSE, called |-> hs[HandlerSlot(method)],
                 response |-> ResultResponse(request_id,
                                [type |-> ResultType(method)])]
      ELSE [raised |-> FALSE, called |-> None,
            response |-> ErrorResponse(request_id, InternalError,
                           <<"Internal error: ", Str(method)>>)]

\* a slip: params that fail the validation are answered with the code for
\* invalid params
handle_request_invalid_params(request, hs, hout) ==
  IF request.kind # "object"
    THEN [raised |-> TRUE, fault |-> "AttributeError", called |-> None]
  ELSE
    LET method     == Get(request.members, "method", None)
        params     == Get(request.members, "params", {})
        request_id == Get(request.members, "id", None)
    IN
    IF method \in DefinedMethods /\ hs[HandlerSlot(method)] # None
      THEN IF ~ParamsValid(method, params)
             THEN [raised |-> FALSE, called |-> None,
                   response |-> ErrorResponse(request_id, -32602,
                                  <<"Invalid params: ", "ValidationError">>)]
           ELSE IF hout = "raises"
             THEN [raised |-> FALSE, called |-> hs[HandlerSlot(method)],
                   response |-> ErrorResponse(request_id, InternalError,
                                  <<"Internal error: ", "handler fault">>)]
           ELSE [raised |-> FALSE, called |-> hs[HandlerSlot(method)],
                 response |-> ResultResponse(request_id,
                                [type |-> ResultType(method)])]
      ELSE [raised |-> FALSE, called |-> None,
            response |-> ErrorResponse(request_id, MethodNotFound,
                           <<"Method not found: ", Str(method)>>)]

\* handle_request(request) on a server whose slots are hs, when the handler
\* (if one is called) behaves as hout.  The outcome is the response returned,
\* or the exception that escapes, and the handler that was called.
handle_request(request, hs, hout) ==
  IF request.kind # "object"
    THEN \* request.get: a value that is no dict has no attribute get
         [raised |-> TRUE, fault |-> "AttributeError", called |-> None]
  ELSE
    LET method     == Get(request.members, "method", None)
        params     == Get(request.members, "params", {})
        request_id == Get(request.members, "id", None)
    IN
    IF method \in DefinedMethods /\ hs[HandlerSlot(method)] # None
      THEN IF ~ParamsValid(method, params)
             THEN [raised |-> FALSE, called |-> None,
                   response |-> ErrorResponse(request_id, InternalError,
                                  <<"Internal error: ", "ValidationError">>)]
           ELSE IF hout = "raises"
             THEN [raised |-> FALSE, called |-> hs[HandlerSlot(method)],
                   response |-> ErrorResponse(request_id, InternalError,
                                  <<"Internal error: ", "handler fault">>)]
           ELSE [raised |-> FALSE, called |-> hs[HandlerSlot(method)],
                 response |-> ResultResponse(request_id,
                                [type |-> ResultType(method)])]
      ELSE [raised |-> FALSE, called |-> None,
            response |-> ErrorResponse(request_id, MethodNotFound,
                           <<"Method not found: ", Str(method)>>)]

\* ------------------------------------------------------------------------
\* MCPHTTPBridge.forward_request
\* ------------------------------------------------------------------------
\* what the downstream does with a request that was posted to it:
\*   status 200 and a JSON body: "echo"        a Response with the id echoed
\*                               "otherid"     a Response with another id
\*                               "notresponse" a JSON value that is no Response
\*   status 200, body not JSON:  "nonjson"
\*   another status:             "http500"
\*   no answer within the time:  "timeout"
\*   the connection fails:       "connfail"
DownstreamOutcomes ==
  {"echo", "otherid", "notresponse", "nonjson", "http500", "timeout", "connfail"}

JsonBodies == {"echo", "otherid", "notresponse"}

\* response.json() for a body the downstream sent with status 200
DownstreamBody(mcp_request, ds) ==
  CASE ds = "echo" ->
         ResultResponse(IF mcp_request.kind = "object"
                          THEN Get(mcp_request.members, "id", None) ELSE None,
                        [type |-> "downstream"])
    [] ds = "otherid" -> ResultResponse("int:99", [type |-> "downstream"])
    [] ds = "notresponse" -> [status |-> "ok"]

\* a slip: the timeout is not told apart from the other transport failures
FailureMessageGeneric(ds) ==
  CASE ds = "http500"  -> <<"HTTP Error: ", ToString(500)>>
    [] ds = "timeout"  -> <<"Bridge error: ", "TimeoutError">>
    [] ds = "connfail" -> <<"Bridge error: ", "ClientConnectorError">>
    [] ds = "nonjson"  -> <<"Bridge error: ", "ContentTypeError">>

\* the message of the Response the bridge makes up for a failure
FailureMessage(ds) ==
  CASE ds = "http500"  -> <<"HTTP Error: ", ToString(500)>>
    [] ds = "timeout"  -> <<"Request timeout">>
    [] ds = "connfail" -> <<"Bridge error: ", "ClientConnectorError">>
    [] ds = "nonjson"  -> <<"Bridge error: ", "ContentTypeError">>

\* a slip: the body of a 200 answer is stamped with the id of the request
forward_request_restamp(mcp_request, ds) ==
  IF ds \in JsonBodies
    THEN [raised |-> FALSE,
          response |->
            [k \in DOMAIN DownstreamBody(mcp_request, ds) \cup {"id"} |->
               IF k = "id"
                 THEN IF mcp_request.kind = "object"
                        THEN Get(mcp_request.members, "id", None) ELSE None
                 ELSE DownstreamBody(mcp_request, ds)[k]]]
  ELSE IF mcp_request.kind # "object"
    THEN [raised |-> TRUE, fault |-> "AttributeError"]
  ELSE [raised |-> FALSE,
        response |-> ErrorResponse(Get(mcp_request.members, "id", None),
                                   InternalError, FailureMessage(ds))]

\* forward_request(mcp_request) when the downstream behaves as ds
forward_request(mcp_request, ds) ==
  IF ds \in JsonBodies
    THEN [raised |-> FALSE, response |-> DownstreamBody(mcp_request, ds)]
  ELSE IF mcp_request.kind # "object"
    THEN \* mcp_request.get("id") raises in the except clause itself
         [raised |-> TRUE, fault |-> "AttributeError"]
  ELSE [raised |-> FALSE,
        response |-> ErrorResponse(Get(mcp_request.members, "id", None),
                                   InternalError, FailureMessage(ds))]

\* ------------------------------------------------------------------------
\* State
\* ------------------------------------------------------------------------
VARIABLES
  handlers,   \* McpServer: the four handler slots
  pipe,       \* stdin: the text written by the client and not read yet
  closed,     \* stdin: the client has closed its end
  written,    \* number of pieces the client has written
  buffer,     \* the read loop: buffer
  pc,         \* the read loop: where it stands
  cur,        \* the read loop: (obj, idx) of the last raw_decode that succeeded
  response,   \* the read loop: response
  stdout,     \* the lines printed to stdout, in order
  stderr,     \* the lines printed to stderr (or logged), in order
  received,   \* every token readline has returned, in order
  decoded,    \* every value raw_decode has returned, in order
  calls,      \* the server: every call of a registered handler, in order
  posts,      \* the bridge: what the downstream did with each request posted
  arg,        \* a single call: the value passed
  hout,       \* a single call: what the handler does
  ds,         \* a single call: what the downstream does
  op,         \* a single call: the function applied, None before the call
  ret,        \* a single call: its outcome
  waited,     \* the bridge: seconds the request posted has waited for its answer
  registrations,          \* McpServer: every run of a decorator, in order
  conversation_history,   \* MCPLocalLLMServer: conversation_history
  chats,      \* the chat_with_llm coroutines: where each stands
  completed,  \* number of chat_with_llm calls that have returned a result
  listed,     \* the results of tools/list and resources/list, in order
  mcp_server, \* the REST bridge: the global mcp_server (NoServer, or the number
              \* of the DeenMateMCPServer it refers to)
  servers,    \* the REST bridge: every DeenMateMCPServer constructed, in order
  conns       \* the REST bridge: the HTTP requests, each on its own connection

vars ==
  <<handlers, pipe, closed, written, buffer, pc, cur, response, stdout, stderr,
    received, decoded, calls, posts, arg, hout, ds, op, ret,
    waited, registrations, conversation_history, chats, completed, listed,
    mcp_server, servers, conns>>

\* the state of the REST bridge
httpVars == <<mcp_server, servers, conns>>

\* the state of the server object and of the bridge's timer
appVars == <<waited, registrations, conversation_history, chats, completed, listed>>

\* the variables of a single call of handle_request or forward_request
callVars == <<arg, hout, ds, op, ret>>

\* the variables of the client's end of stdin
clientVars == <<pipe, closed, written>>

\* the variables of a read loop
loopVars == <<buffer, pc, cur, response, stdout, stderr, received, decoded>>

\* ------------------------------------------------------------------------
\* The client at the other end of stdin
\* ------------------------------------------------------------------------
\* the text of a request object, as json.dumps writes it (on one line)
RequestText(b) == <<LBrace, b, RBrace>>

\* the same object with a line feed after the opening brace
PrettyText(b) == <<LBrace, NL, b, RBrace>>

\* what the client writes in one go: a request and a line feed, a request
\* without a line feed (the next piece goes on the same line), a request
\* over two lines, a blank line, a blank, a stray bracket, a number
Pieces ==
  {RequestText(b) \o <<NL>> : b \in BodyTokens}
    \cup {RequestText(b) : b \in {"b_list"}}
    \cup {PrettyText(b) \o <<NL>> : b \in {"b_nope"}}
    \cup {<<NL>>, <<Space>>, <<RBrack>>, <<Digit>>}

ClientWrite ==
  /\ ~closed
  /\ written < MaxPieces
  /\ \E piece \in Pieces : pipe' = pipe \o piece
  /\ written' = written + 1
  /\ UNCHANGED <<closed, handlers, calls, posts>>
  /\ UNCHANGED loopVars
  /\ UNCHANGED callVars
  /\ UNCHANGED appVars
  /\ UNCHANGED httpVars

BridgeClientWrite ==
  /\ ~closed
  /\ written < MaxBridgePieces
  /\ \E piece \in Pieces : pipe' = pipe \o piece
  /\ written' = written + 1
  /\ UNCHANGED <<closed, handlers, calls, posts>>
  /\ UNCHANGED loopVars
  /\ UNCHANGED callVars
  /\ UNCHANGED appVars
  /\ UNCHANGED httpVars

ClientClose ==
  /\ ~closed
  /\ closed' = TRUE
  /\ UNCHANGED <<pipe, written, handlers, calls, posts>>
  /\ UNCHANGED loopVars
  /\ UNCHANGED callVars
  /\ UNCHANGED appVars
  /\ UNCHANGED httpVars

\* ------------------------------------------------------------------------
\* sys.stdin.readline
\* ------------------------------------------------------------------------
RECURSIVE LineEnd(_, _)
\* index of the first line feed at or after i, or Len(text) when there is none
LineEnd(text, i) ==
  IF i >= Len(text) \/ text[i] = NL THEN i ELSE LineEnd(text, i + 1)

\* readline returns once a whole line is there, or at the end of the stream
CanReadline == closed \/ \E i \in 1..Len(pipe) : pipe[i] = NL

\* the line readline returns: through the first line feed, or what is left
\* at the end of the stream ("" when nothing is left)
NextLine == IF pipe = <<>> THEN <<>> ELSE SubSeq(pipe, 1, LineEnd(pipe, 1))

\* a slip: at the end of the stream the loop answers what is left in the
\* buffer with an error Response before it ends
ReadlineFlushAtEof ==
  /\ pc = "read"
  /\ CanReadline
  /\ LET line == NextLine IN
     IF line = <<>>
       THEN /\ pc' = "done"
            /\ stdout' = IF buffer = <<>> THEN stdout
                         ELSE Append(stdout, ErrorResponse(None, InternalError,
                                                           <<"Incomplete message">>))
            /\ UNCHANGED <<pipe, buffer, received>>
       ELSE /\ pipe' = Slice(pipe, Len(line))
            /\ buffer' = buffer \o line
            /\ received' = received \o line
            /\ pc' = "decode"
            /\ UNCHANGED stdout
  /\ UNCHANGED <<closed, written, cur, response, stderr, decoded>>
  /\ UNCHANGED <<handlers, calls, posts>>
  /\ UNCHANGED callVars
  /\ UNCHANGED appVars
  /\ UNCHANGED httpVars

\* ------------------------------------------------------------------------
\* McpServer.run: read_messages
\* ------------------------------------------------------------------------
\* line = readline(); if not line: break; buffer += line
Readline ==
  /\ pc = "read"
  /\ CanReadline
  /\ LET line == NextLine IN
     IF line = <<>>
       THEN /\ pc' = "done"
            /\ UNCHANGED <<pipe, buffer, received>>
       ELSE /\ pipe' = Slice(pipe, Len(line))
            /\ buffer' = buffer \o line
            /\ received' = received \o line
            /\ pc' = "decode"
  /\ UNCHANGED <<closed, written, cur, response, stdout, stderr, decoded>>
  /\ UNCHANGED <<handlers, calls, posts>>
  /\ UNCHANGED callVars
  /\ UNCHANGED appVars
  /\ UNCHANGED httpVars

\* a slip: on JSONDecodeError the text that did not decode is thrown away
DecodeDropsPartial ==
  /\ pc = "decode"
  /\ LET r == raw_decode(buffer) IN
     IF buffer # <<>> /\ r.ok
       THEN /\ cur' = r
            /\ decoded' = Append(decoded, r.obj)
            /\ pc' = "handle"
            /\ UNCHANGED buffer
       ELSE /\ pc' = "read"
            /\ buffer' = <<>>
            /\ UNCHANGED <<cur, decoded>>
  /\ UNCHANGED <<response, stdout, stderr, received>>
  /\ UNCHANGED <<handlers, calls, posts>>
  /\ UNCHANGED clientVars
  /\ UNCHANGED callVars
  /\ UNCHANGED appVars
  /\ UNCHANGED httpVars

\* sys.stdin.readline raises (the bytes read are no valid text, the file is
\* closed under the reader): except Exception prints to stderr and breaks
ReadlineRaises ==
  /\ pc = "read"
  /\ pc' = "done"
  /\ stderr' = Append(stderr, <<"Error reading message: ", "read failure">>)
  /\ UNCHANGED <<buffer, cur, response, stdout, received, decoded>>
  /\ UNCHANGED <<handlers, calls, posts>>
  /\ UNCHANGED clientVars
  /\ UNCHANGED callVars
  /\ UNCHANGED appVars
  /\ UNCHANGED httpVars

\* while buffer: obj, idx = decoder.raw_decode(buffer)
\*   except json.JSONDecodeError: break
Decode ==
  /\ pc = "decode"
  /\ LET r == raw_decode(buffer) IN
     IF buffer # <<>> /\ r.ok
       THEN /\ cur' = r
            /\ decoded' = Append(decoded, r.obj)
            /\ pc' = "handle"
       ELSE /\ pc' = "read"
            /\ UNCHANGED <<cur, decoded>>
  /\ UNCHANGED <<buffer, response, stdout, stderr, received>>
  /\ UNCHANGED <<handlers, calls, posts>>
  /\ UNCHANGED clientVars
  /\ UNCHANGED callVars
  /\ UNCHANGED appVars
  /\ UNCHANGED httpVars

\* a slip: a fault of the handler is not caught by handle_request, so it
\* reaches the except clause of the loop
HandleRequestUncaught ==
  /\ pc = "handle"
  /\ \E h \in HandlerOutcomes :
       LET out == handle_request(cur.obj, handlers, h) IN
       /\ calls' = IF out.called # None
                     THEN Append(calls, [handler |-> out.called,
                                         request |-> Len(decoded),
                                         outcome |-> h])
                     ELSE calls
       /\ IF out.raised \/ (out.called # None /\ h = "raises")
            THEN /\ stderr' = Append(stderr, <<"Error reading message: ", "fault">>)
                 /\ pc' = "done"
                 /\ UNCHANGED response
            ELSE /\ response' = out.response
                 /\ pc' = "write"
                 /\ UNCHANGED stderr
  /\ UNCHANGED <<buffer, cur, stdout, received, decoded>>
  /\ UNCHANGED <<handlers, posts>>
  /\ UNCHANGED clientVars
  /\ UNCHANGED callVars
  /\ UNCHANGED appVars
  /\ UNCHANGED httpVars

\* response = await self.handle_request(obj)
\*   except Exception as e: print(..., file=sys.stderr); break
HandleRequest ==
  /\ pc = "handle"
  /\ \E h \in HandlerOutcomes :
       LET out == handle_request(cur.obj, handlers, h) IN
       /\ calls' = IF out.called # None
                     THEN Append(calls, [handler |-> out.called,
                                         request |-> Len(decoded),
                                         outcome |-> h])
                     ELSE calls
       /\ IF out.raised
            THEN /\ stderr' = Append(stderr, <<"Error reading message: ", out.fault>>)
                 /\ pc' = "done"
                 /\ UNCHANGED response
            ELSE /\ response' = out.response
                 /\ pc' = "write"
                 /\ UNCHANGED stderr
  /\ UNCHANGED <<buffer, cur, stdout, received, decoded>>
  /\ UNCHANGED <<handlers, posts>>
  /\ UNCHANGED clientVars
  /\ UNCHANGED callVars
  /\ UNCHANGED appVars
  /\ UNCHANGED httpVars

\* a slip: the buffer is advanced and the loop goes on before the response
\* has been printed
WriteResponseDeferred ==
  /\ pc = "write"
  /\ buffer' = lstrip(Slice(buffer, cur.idx))
  /\ pc' = "decode"
  /\ UNCHANGED <<cur, response, stdout, stderr, received, decoded>>
  /\ UNCHANGED <<handlers, calls, posts>>
  /\ UNCHANGED clientVars
  /\ UNCHANGED callVars
  /\ UNCHANGED appVars
  /\ UNCHANGED httpVars

\* print(json.dumps(response), flush=True); buffer = buffer[idx:].lstrip()
WriteResponse ==
  /\ pc = "write"
  /\ stdout' = Append(stdout, response)
  /\ buffer' = lstrip(Slice(buffer, cur.idx))
  /\ pc' = "decode"
  /\ UNCHANGED <<cur, response, stderr, received, decoded>>
  /\ UNCHANGED <<handlers, calls, posts>>
  /\ UNCHANGED clientVars
  /\ UNCHANGED callVars
  /\ UNCHANGED appVars
  /\ UNCHANGED httpVars

\* ------------------------------------------------------------------------
\* MCPHTTPBridge.handle_stdio: read_requests
\* ------------------------------------------------------------------------
\* line = readline(); if not line: break; buffer += line
BridgeReadline ==
  /\ pc = "read"
  /\ CanReadline
  /\ LET line == NextLine IN
     IF line = <<>>
       THEN /\ pc' = "done"
            /\ UNCHANGED <<pipe, buffer, received>>
       ELSE /\ pipe' = Slice(pipe, Len(line))
            /\ buffer' = buffer \o line
            /\ received' = received \o line
            /\ pc' = "decode"
  /\ UNCHANGED <<closed, written, cur, response, stdout, stderr, decoded>>
  /\ UNCHANGED <<handlers, calls, posts>>
  /\ UNCHANGED callVars
  /\ UNCHANGED appVars
  /\ UNCHANGED httpVars

\* while buffer: request, idx = decoder.raw_decode(buffer), and the request
\* is posted to the downstream (the first half of forward_request)
\*   except json.JSONDecodeError: break
BridgeDecode ==
  /\ pc = "decode"
  /\ LET r == raw_decode(buffer) IN
     IF buffer # <<>> /\ r.ok
       THEN /\ cur' = r
            /\ decoded' = Append(decoded, r.obj)
            /\ pc' = "await"
       ELSE /\ pc' = "read"
            /\ UNCHANGED <<cur, decoded>>
  /\ UNCHANGED <<buffer, response, stdout, stderr, received>>
  /\ UNCHANGED <<handlers, calls, posts>>
  /\ UNCHANGED clientVars
  /\ UNCHANGED callVars
  /\ UNCHANGED appVars
  /\ UNCHANGED httpVars

\* response = await self.forward_request(request): the downstream answers,
\* fails or stays silent until the timeout
\*   except Exception as e: logger.error(...); break
ForwardComplete ==
  /\ pc = "await"
  /\ \E d \in DownstreamOutcomes :
       LET out == forward_request(cur.obj, d) IN
       /\ posts' = Append(posts, d)
       /\ IF out.raised
            THEN /\ stderr' = Append(stderr, <<"Error processing request: ", out.fault>>)
                 /\ pc' = "done"
                 /\ UNCHANGED response
            ELSE /\ response' = out.response
                 /\ pc' = "write"
                 /\ UNCHANGED stderr
  /\ UNCHANGED <<buffer, cur, stdout, received, decoded>>
  /\ UNCHANGED <<handlers, calls>>
  /\ UNCHANGED clientVars
  /\ UNCHANGED callVars
  /\ UNCHANGED appVars
  /\ UNCHANGED httpVars

\* print(json.dumps(response), flush=True); buffer = buffer[idx:].lstrip()
BridgeWrite ==
  /\ pc = "write"
  /\ stdout' = Append(stdout, response)
  /\ buffer' = lstrip(Slice(buffer, cur.idx))
  /\ pc' = "decode"
  /\ UNCHANGED <<cur, response, stderr, received, decoded>>
  /\ UNCHANGED <<handlers, calls, posts>>
  /\ UNCHANGED clientVars
  /\ UNCHANGED callVars
  /\ UNCHANGED appVars
  /\ UNCHANGED httpVars

\* ------------------------------------------------------------------------
\* Specifications
\* ------------------------------------------------------------------------
\* a local of the loop that no statement has assigned yet (a record, as the
\* Responses it holds later are)
Unassigned == [assigned |-> FALSE]

InitLoop ==
  /\ pipe = <<>>
  /\ closed = FALSE
  /\ written = 0
  /\ buffer = <<>>
  /\ pc = "read"
  /\ cur = NoValue
  /\ response = Unassigned
  /\ stdout = <<>>
  /\ stderr = <<>>
  /\ received = <<>>
  /\ decoded = <<>>
  /\ calls = <<>>
  /\ posts = <<>>

NoCall ==
  /\ arg = None
  /\ hout = None
  /\ ds = None
  /\ op = None
  /\ ret = None

\* one run of a decorator: self.<slot> = func
Registration(slot, func) == [slot |-> slot, func |-> func]

\* MCPLocalLLMServer.setup_handlers: the decorators it runs, in order
BaseRegistrations ==
  <<Registration("tools_handler", BaseHandlers.tools_handler),
    Registration("call_tool_handler", BaseHandlers.call_tool_handler),
    Registration("resources_handler", BaseHandlers.resources_handler),
    Registration("read_resource_handler", BaseHandlers.read_resource_handler)>>

\* the callers whose chat_with_llm calls may be in flight together
Callers == {"c1", "c2"}

\* no chat_with_llm call is in flight
IdleChats == [c \in Callers |-> [pc |-> "idle", message |-> None, started |-> 0]]

\* mcp_server: Optional[DeenMateMCPServer] = None (the DeenMateMCPServer
\* objects are numbered from 1 in the order of their construction)
NoServer == 0

\* the HTTP requests that may be in flight together, each on its own connection
Connections == {"h1", "h2"}

\* a request that has no body yet, a connection that has no reply yet
NoBody == [kind |-> "none"]
NoReply == [status |-> 0]

\* a connection on which no request has arrived
IdleConn ==
  [pc |-> "idle", path |-> "", body |-> NoBody, server |-> NoServer, reply |-> NoReply]

\* the module is imported: the global is None and no request has arrived
InitHttp ==
  /\ mcp_server = NoServer
  /\ servers = <<>>
  /\ conns = [c \in Connections |-> IdleConn]

\* MCPLocalLLMServer.__init__: conversation_history = {}; nothing is in
\* flight, nothing has been listed, the bridge waits for no answer
InitServerObject ==
  /\ waited = 0
  /\ conversation_history = <<>>
  /\ chats = IdleChats
  /\ completed = 0
  /\ listed = <<>>

\* the stdio server of MCPLocalLLMServer: setup_handlers has run
Init ==
  /\ handlers = BaseHandlers
  /\ registrations = BaseRegistrations
  /\ InitServerObject
  /\ InitHttp
  /\ InitLoop
  /\ NoCall

Next ==
  \/ ClientWrite
  \/ ClientClose
  \/ Readline
  \/ Decode
  \/ HandleRequest
  \/ WriteResponse

Spec == Init /\ [][Next]_vars

\* ------------------------------------------------------------------------
\* The stdio server on a stream that may be cut off or fail
\* ------------------------------------------------------------------------
\* what the client writes in one go: a request and a line feed, a request
\* without a line feed, a request over two lines, and the first line of a
\* request that is never completed
StreamPieces ==
  {RequestText("b_list") \o <<NL>>, RequestText("b_list"),
   PrettyText("b_nope") \o <<NL>>, <<LBrace, NL>>, <<Digit, NL>>}

StreamClientWrite ==
  /\ ~closed
  /\ written < MaxPieces
  /\ \E piece \in StreamPieces : pipe' = pipe \o piece
  /\ written' = written + 1
  /\ UNCHANGED <<closed, handlers, calls, posts>>
  /\ UNCHANGED loopVars
  /\ UNCHANGED callVars
  /\ UNCHANGED appVars
  /\ UNCHANGED httpVars

NextStream ==
  \/ StreamClientWrite
  \/ ClientClose
  \/ Readline
  \/ ReadlineRaises
  \/ Decode
  \/ HandleRequest
  \/ WriteResponse

\* the steps of read_messages that do not wait for the outside: the loop is
\* the only coroutine of the process and runs whenever it can (each of these
\* steps changes pc)
LoopStep == Readline \/ Decode \/ HandleRequest \/ WriteResponse

SpecStream == Init /\ [][NextStream]_vars /\ WF_pc(LoopStep)

\* the bridge: it owns no McpServer
InitBridge ==
  /\ handlers = NoHandlers
  /\ registrations = <<>>
  /\ InitServerObject
  /\ InitHttp
  /\ InitLoop
  /\ NoCall

NextBridge ==
  \/ BridgeClientWrite
  \/ ClientClose
  \/ BridgeReadline
  \/ BridgeDecode
  \/ ForwardComplete
  \/ BridgeWrite

SpecBridge == InitBridge /\ [][NextBridge]_vars

\* ------------------------------------------------------------------------
\* The bridge with the time a forwarded request waits
\* ------------------------------------------------------------------------
\* aiohttp.ClientTimeout(total=30): seconds
ClientTimeout == 30

\* the requests the client of the timed bridge writes, one per line
TimedPieces == {RequestText(b) \o <<NL>> : b \in {"b_list", "b_nope"}}

TimedClientWrite ==
  /\ ~closed
  /\ written < MaxBridgePieces
  /\ \E piece \in TimedPieces : pipe' = pipe \o piece
  /\ written' = written + 1
  /\ UNCHANGED <<closed, handlers, calls, posts>>
  /\ UNCHANGED loopVars
  /\ UNCHANGED callVars
  /\ UNCHANGED appVars
  /\ UNCHANGED httpVars

\* a second passes while the request posted has no answer
Tick ==
  /\ pc = "await"
  /\ waited < ClientTimeout
  /\ waited' = waited + 1
  /\ UNCHANGED <<handlers, calls, posts>>
  /\ UNCHANGED loopVars
  /\ UNCHANGED clientVars
  /\ UNCHANGED callVars
  /\ UNCHANGED <<registrations, conversation_history, chats, completed, listed>>
  /\ UNCHANGED httpVars

\* what the downstream does when it does answer in time
TimelyOutcomes == {"echo", "http500"}

\* the downstream answers before the time is up
ForwardAnswered ==
  /\ pc = "await"
  /\ waited < ClientTimeout
  /\ \E d \in TimelyOutcomes :
       LET out == forward_request(cur.obj, d) IN
       /\ posts' = Append(posts, d)
       /\ IF out.raised
            THEN /\ stderr' = Append(stderr, <<"Error processing request: ", out.fault>>)
                 /\ pc' = "done"
                 /\ UNCHANGED response
            ELSE /\ response' = out.response
                 /\ pc' = "write"
                 /\ UNCHANGED stderr
  /\ waited' = 0
  /\ UNCHANGED <<buffer, cur, stdout, received, decoded>>
  /\ UNCHANGED <<handlers, calls>>
  /\ UNCHANGED clientVars
  /\ UNCHANGED callVars
  /\ UNCHANGED <<registrations, conversation_history, chats, completed, listed>>
  /\ UNCHANGED httpVars

\* a slip: asyncio.TimeoutError is not caught in forward_request, reaches the
\* except clause of the loop and ends it
ForwardTimeoutEscapes ==
  /\ pc = "await"
  /\ waited = ClientTimeout
  /\ posts' = Append(posts, "timeout")
  /\ stderr' = Append(stderr, <<"Error processing request: ", "TimeoutError">>)
  /\ pc' = "done"
  /\ waited' = 0
  /\ UNCHANGED <<buffer, cur, response, stdout, received, decoded>>
  /\ UNCHANGED <<handlers, calls>>
  /\ UNCHANGED clientVars
  /\ UNCHANGED callVars
  /\ UNCHANGED <<registrations, conversation_history, chats, completed, listed>>
  /\ UNCHANGED httpVars

\* the time is up: the post raises asyncio.TimeoutError inside forward_request
ForwardTimeout ==
  /\ pc = "await"
  /\ waited = ClientTimeout
  /\ LET out == forward_request(cur.obj, "timeout") IN
       /\ posts' = Append(posts, "timeout")
       /\ IF out.raised
            THEN /\ stderr' = Append(stderr, <<"Error processing request: ", out.fault>>)
                 /\ pc' = "done"
                 /\ UNCHANGED response
            ELSE /\ response' = out.response
                 /\ pc' = "write"
                 /\ UNCHANGED stderr
  /\ waited' = 0
  /\ UNCHANGED <<buffer, cur, stdout, received, decoded>>
  /\ UNCHANGED <<handlers, calls>>
  /\ UNCHANGED clientVars
  /\ UNCHANGED callVars
  /\ UNCHANGED <<registrations, conversation_history, chats, completed, listed>>
  /\ UNCHANGED httpVars

NextBridgeTimed ==
  \/ TimedClientWrite
  \/ ClientClose
  \/ BridgeReadline
  \/ BridgeDecode
  \/ Tick
  \/ ForwardAnswered
  \/ ForwardTimeout
  \/ BridgeWrite

\* the steps of read_requests that do not wait for the outside (each changes
\* pc); the timer of the post fires when its time is up
BridgeLoopStep == BridgeReadline \/ BridgeDecode \/ ForwardTimeout \/ BridgeWrite

\* time passes, the loop runs whenever it can; the downstream owes nothing
SpecBridgeTimed ==
  InitBridge /\ [][NextBridgeTimed]_vars /\ WF_waited(Tick) /\ WF_pc(BridgeLoopStep)

\* ------------------------------------------------------------------------
\* A single call of handle_request or forward_request
\* ------------------------------------------------------------------------
\* the ids, methods and params a request may carry; <<>> is a member left out
IdChoices     == {<<>>, <<None>>, <<"int:1">>, <<"str:a">>}
MethodChoices == {<<>>, <<"nope">>, <<"foo/bar">>} \cup {<<m>> : m \in DefinedMethods}
ParamsChoices == {<<>>, <<{}>>, <<{"name", "arguments"}>>, <<{"uri"}>>, <<{"name"}>>}

\* the dict with the members that are not left out
Members(i, m, p) ==
  [k \in (IF i = <<>> THEN {} ELSE {"id"})
           \cup (IF m = <<>> THEN {} ELSE {"method"})
           \cup (IF p = <<>> THEN {} ELSE {"params"}) |->
     CASE k = "id" -> i[1] [] k = "method" -> m[1] [] k = "params" -> p[1]]

\* the values json can decode: request objects, and values that are no object
Values ==
  {[kind |-> "object", members |-> Members(i, m, p)] :
     i \in IdChoices, m \in MethodChoices, p \in ParamsChoices}
    \cup {[kind |-> "number", digits |-> 1], [kind |-> "array", size |-> 0]}

InitCall ==
  /\ handlers \in {NoHandlers, BaseHandlers}
  /\ registrations = (IF handlers = NoHandlers THEN <<>> ELSE BaseRegistrations)
  /\ InitServerObject
  /\ InitHttp
  /\ InitLoop
  /\ arg \in Values
  /\ hout \in HandlerOutcomes
  /\ ds \in DownstreamOutcomes
  /\ op = None
  /\ ret = None

\* await server.handle_request(arg)
CallHandleRequest ==
  /\ op = None
  /\ op' = "handle_request"
  /\ ret' = handle_request(arg, handlers, hout)
  /\ UNCHANGED <<arg, hout, ds, handlers, calls, posts>>
  /\ UNCHANGED loopVars
  /\ UNCHANGED clientVars
  /\ UNCHANGED appVars
  /\ UNCHANGED httpVars

\* await bridge.forward_request(arg)
CallForwardRequest ==
  /\ op = None
  /\ op' = "forward_request"
  /\ ret' = forward_request(arg, ds)
  /\ UNCHANGED <<arg, hout, ds, handlers, calls, posts>>
  /\ UNCHANGED loopVars
  /\ UNCHANGED clientVars
  /\ UNCHANGED appVars
  /\ UNCHANGED httpVars

NextCall ==
  \/ CallHandleRequest
  \/ CallForwardRequest

SpecCall == InitCall /\ [][NextCall]_vars

\* ------------------------------------------------------------------------
\* McpServer: the decorators list_tools, call_tool, list_resources and
\* read_resource
\* ------------------------------------------------------------------------
MaxRegistrations == 4

Slots == {"tools_handler", "call_tool_handler", "resources_handler",
          "read_resource_handler"}

\* DeenMateMCPServer.setup_deenmate_handlers: the four functions it defines
DeenMateHandlers ==
  [tools_handler |-> "deenmate:handle_list_tools",
   call_tool_handler |-> "deenmate:handle_call_tool",
   resources_handler |-> "deenmate:handle_list_resources",
   read_resource_handler |-> "deenmate:handle_read_resource"]

\* the functions the two classes pass to the decorator of a slot
Funcs(slot) == {BaseHandlers[slot], DeenMateHandlers[slot]}

\* a slip: the decorator keeps the handler that is already bound
RegisterKeepsFirst(slot, func) ==
  /\ op = None
  /\ Len(registrations) < MaxRegistrations
  /\ handlers' = IF handlers[slot] = None
                   THEN [handlers EXCEPT ![slot] = func] ELSE handlers
  /\ registrations' = Append(registrations, Registration(slot, func))
  /\ UNCHANGED <<calls, posts>>
  /\ UNCHANGED loopVars
  /\ UNCHANGED clientVars
  /\ UNCHANGED callVars
  /\ UNCHANGED <<waited, conversation_history, chats, completed, listed>>
  /\ UNCHANGED httpVars

\* @server.list_tools() and the other three: decorator(func) sets the slot
Register(slot, func) ==
  /\ op = None
  /\ Len(registrations) < MaxRegistrations
  /\ handlers' = [handlers EXCEPT ![slot] = func]
  /\ registrations' = Append(registrations, Registration(slot, func))
  /\ UNCHANGED <<calls, posts>>
  /\ UNCHANGED loopVars
  /\ UNCHANGED clientVars
  /\ UNCHANGED callVars
  /\ UNCHANGED <<waited, conversation_history, chats, completed, listed>>
  /\ UNCHANGED httpVars

\* a request of the method with params its request type accepts
RequestFor(method) ==
  [kind |-> "object",
   members |->
     Members(<<"int:1">>, <<method>>,
             CASE method = "tools/call"     -> <<{"name", "arguments"}>>
               [] method = "resources/read" -> <<{"uri"}>>
               [] OTHER                     -> <<{}>>)]

\* McpServer.__init__, and the request that will be served once the
\* registrations are made
InitRegistry ==
  /\ handlers = NoHandlers
  /\ registrations = <<>>
  /\ InitServerObject
  /\ InitHttp
  /\ InitLoop
  /\ arg \in {RequestFor(m) : m \in DefinedMethods}
  /\ hout \in HandlerOutcomes
  /\ ds = None
  /\ op = None
  /\ ret = None

NextRegistry ==
  \/ \E slot \in Slots : \E func \in Funcs(slot) : Register(slot, func)
  \/ CallHandleRequest

SpecRegistry == InitRegistry /\ [][NextRegistry]_vars

\* ------------------------------------------------------------------------
\* MCPLocalLLMServer and DeenMateMCPServer: the tools and the resources
\* ------------------------------------------------------------------------
\* a Tool is known by its name, a Resource by its uri: the handlers copy
\* description, schema and mime type from the same literal or provider entry

\* the tools both classes list first
BaseTools ==
  <<"chat_with_llm", "analyze_code", "generate_text", "translate_text",
    "summarize_content">>

\* IslamicMCPTools.get_islamic_tools()
IslamicTools ==
  <<"islamic_guidance", "quran_explanation", "hadith_guidance", "prayer_guidance",
    "zakat_calculator", "islamic_content_generator", "halal_haram_guidance",
    "ramadan_fasting_guide">>

\* DeenMateCodeGenerator.get_deenmate_tools()
CodeTools ==
  <<"generate_flutter_feature", "generate_backend_api", "generate_web_component",
    "generate_islamic_ui_components", "generate_database_schema",
    "generate_test_suite", "generate_documentation">>

BaseResources ==
  <<"llm://model/info", "llm://conversations/history", "llm://system/status">>

\* IslamicMCPTools.get_islamic_resources()
IslamicResources ==
  <<"islamic://daily/content", "islamic://prayer/times",
    "islamic://calendar/events", "islamic://content/library">>

RECURSIVE AppendAll(_, _)
\* for entry in provided: target.append(entry)
AppendAll(target, provided) ==
  IF provided = <<>> THEN target
  ELSE AppendAll(Append(target, Head(provided)), Tail(provided))

\* a slip: the loop over the code-generation tools is missing
handle_list_tools_without_code(func) ==
  IF func = BaseHandlers.tools_handler
    THEN BaseTools
    ELSE AppendAll(BaseTools, IslamicTools)

\* handle_list_tools() of the class whose function is bound: result.tools
handle_list_tools(func) ==
  IF func = BaseHandlers.tools_handler
    THEN BaseTools
    ELSE AppendAll(AppendAll(BaseTools, IslamicTools), CodeTools)

\* handle_list_resources(): result.resources
handle_list_resources(func) ==
  IF func = BaseHandlers.resources_handler
    THEN BaseResources
    ELSE AppendAll(BaseResources, IslamicResources)

\* the elements of a sequence
Range(seq) == {seq[i] : i \in 1..Len(seq)}

\* the _handle_ methods an object of the class has (DeenMateMCPServer
\* inherits those of MCPLocalLLMServer and overrides all five)
Methods(func) ==
  {"_handle_" \o n : n \in Range(BaseTools)}
    \cup (IF func = BaseHandlers.call_tool_handler THEN {}
          ELSE {"_handle_" \o n : n \in Range(IslamicTools)})

\* handle_call_tool(request): the method the if/elif chain calls for the
\* name, or how the call ends without one
handle_call_tool(func, name) ==
  IF func = BaseHandlers.call_tool_handler
    THEN IF name \in Range(BaseTools)
           THEN [method |-> "_handle_" \o name, of |-> "MCPLocalLLMServer"]
           ELSE [method |-> None, isError |-> TRUE,
                 text |-> <<"Error: ", "Unknown tool: ", name>>]
  ELSE IF name \in Range(IslamicTools) \cup Range(CodeTools) \cup Range(BaseTools)
    THEN IF "_handle_" \o name \in Methods(func)
           THEN [method |-> "_handle_" \o name, of |-> "DeenMateMCPServer"]
           ELSE [method |-> None, raises |-> "AttributeError"]
  ELSE [method |-> None, isError |-> TRUE, text |-> <<"Unknown tool: ", name>>]

\* what a _handle_ method does when it is called: it returns its
\* CallToolResult, or it raises (a missing argument, a fault of the model)
ToolOutcomes == {"returns", "raises"}

\* a slip: the handler of MCPLocalLLMServer has no try/except
call_tool_handler_no_catch(func, name, tout) ==
  LET chain == handle_call_tool(func, name) IN
  IF chain.method # None
    THEN IF tout = "raises"
           THEN [raised |-> TRUE, fault |-> "fault"]
           ELSE [raised |-> FALSE,
                 result |-> [isError |-> FALSE, text |-> <<"reply of ", name>>]]
  ELSE IF func = BaseHandlers.call_tool_handler
    THEN [raised |-> TRUE, fault |-> "ValueError"]
  ELSE IF "raises" \in DOMAIN chain
    THEN [raised |-> TRUE, fault |-> chain.raises]
  ELSE [raised |-> FALSE, result |-> [isError |-> TRUE, text |-> chain.text]]

\* await self.call_tool_handler(request) for a request whose params are
\* valid: the CallToolResult returned (content[0].text and isError), or the
\* exception that leaves the handler.  MCPLocalLLMServer wraps its chain in
\* try/except Exception and answers a fault with isError; DeenMateMCPServer
\* has no try
call_tool_handler(func, name, tout) ==
  LET chain == handle_call_tool(func, name) IN
  IF func = BaseHandlers.call_tool_handler
    THEN IF chain.method # None
           THEN IF tout = "raises"
                  THEN [raised |-> FALSE,
                        result |-> [isError |-> TRUE, text |-> <<"Error: ", "fault">>]]
                  ELSE [raised |-> FALSE,
                        result |-> [isError |-> FALSE, text |-> <<"reply of ", name>>]]
           ELSE [raised |-> FALSE, result |-> [isError |-> TRUE, text |-> chain.text]]
  ELSE IF chain.method # None
    THEN IF tout = "raises"
           THEN [raised |-> TRUE, fault |-> "fault"]
           ELSE [raised |-> FALSE,
                 result |-> [isError |-> FALSE, text |-> <<"reply of ", name>>]]
  ELSE IF "raises" \in DOMAIN chain
    THEN [raised |-> TRUE, fault |-> chain.raises]
  ELSE [raised |-> FALSE, result |-> [isError |-> TRUE, text |-> chain.text]]

\* handle_request for tools/call with valid params on a server whose handler
\* is bound: CallToolRequest(params=params), await self.call_tool_handler,
\* result.dict() in the result envelope, and the except clause for a
\* handler that raises
serve_tools_call(hs, request_id, name, tout) ==
  LET r    == call_tool_handler(hs.call_tool_handler, name, tout)
      sent == handle_request(
                [kind |-> "object",
                 members |-> [id |-> request_id, method |-> "tools/call",
                              params |-> {"name", "arguments"}]],
                hs, IF r.raised THEN "raises" ELSE "returns").response
  IN IF r.raised THEN [sent EXCEPT !.error.message = <<"Internal error: ", r.fault>>]
     ELSE [sent EXCEPT !.result = r.result]

\* await self.read_resource_handler(request): the GetResourceResult for the
\* uri (of the history, the keys it holds), or ValueError for a uri that no
\* branch of the chain has
handle_read_resource(func, uri, history) ==
  IF uri \in Range(BaseResources)
               \cup (IF func = BaseHandlers.read_resource_handler THEN {}
                     ELSE Range(IslamicResources))
    THEN [raised |-> FALSE,
          result |-> [uri |-> uri,
                      keys |-> IF uri = "llm://conversations/history"
                                 THEN DOMAIN history ELSE {}]]
    ELSE [raised |-> TRUE, fault |-> "ValueError"]

\* ------------------------------------------------------------------------
\* The server object while it serves requests
\* ------------------------------------------------------------------------
MaxChats  == 3
MaxListed == 2
MaxCalls  == 1

\* DeenMateMCPServer.__init__: setup_handlers, then setup_deenmate_handlers
DeenMateRegistrations ==
  BaseRegistrations \o
  <<Registration("tools_handler", DeenMateHandlers.tools_handler),
    Registration("call_tool_handler", DeenMateHandlers.call_tool_handler),
    Registration("resources_handler", DeenMateHandlers.resources_handler),
    Registration("read_resource_handler", DeenMateHandlers.read_resource_handler)>>

\* arguments["message"] of the chat_with_llm calls
Messages == {"m1", "m2"}

\* len(self.conversation_history)
HistoryLen(h) == Cardinality(DOMAIN h)

\* the chat_with_llm calls that wait for generate_response
InFlight == {c \in Callers : chats[c].pc = "generating"}

\* a slip: the list is kept on the object, so each listing appends the
\* entries once more to what the listing before it returned
ServeListAccumulating(method) ==
  /\ Len(listed) < MaxListed
  /\ LET func    == handlers[HandlerSlot(method)]
         fresh   == IF method = "tools/list" THEN handle_list_tools(func)
                    ELSE handle_list_resources(func)
         earlier == {i \in 1..Len(listed) : listed[i].method = method}
     IN listed' = Append(listed,
                    [method |-> method,
                     result |-> IF earlier = {} THEN fresh
                                ELSE AppendAll(listed[CHOOSE i \in earlier : TRUE].result,
                                               fresh)])
  /\ UNCHANGED <<handlers, calls, posts>>
  /\ UNCHANGED loopVars
  /\ UNCHANGED clientVars
  /\ UNCHANGED callVars
  /\ UNCHANGED <<waited, registrations, conversation_history, chats, completed>>
  /\ UNCHANGED httpVars

\* tools/list or resources/list is served by the handler bound to its slot
ServeList(method) ==
  /\ Len(listed) < MaxListed
  /\ LET func == handlers[HandlerSlot(method)] IN
     listed' = Append(listed,
                 [method |-> method,
                  result |-> IF method = "tools/list"
                               THEN handle_list_tools(func)
                               ELSE handle_list_resources(func)])
  /\ UNCHANGED <<handlers, calls, posts>>
  /\ UNCHANGED loopVars
  /\ UNCHANGED clientVars
  /\ UNCHANGED callVars
  /\ UNCHANGED <<waited, registrations, conversation_history, chats, completed>>
  /\ UNCHANGED httpVars

\* the names of the tools/call requests that are no chat: a tool of each
\* provider and a name no provider has
OtherCalls == {"analyze_code", "islamic_guidance", "generate_flutter_feature", "echo"}

\* tools/call for a tool that does not touch conversation_history (the other
\* _handle_ methods only call generate_response), and tools/call
\* chat_with_llm whose arguments have no "message": arguments["message"]
\* raises KeyError before generate_response is called
CallTool(name, tout) ==
  /\ Len(calls) < MaxCalls
  /\ name = "chat_with_llm" => tout = "raises"
  /\ LET func == handlers.call_tool_handler IN
     calls' = Append(calls, [handler |-> func, method |-> "tools/call",
                             request |-> name, tout |-> tout,
                             outcome |-> handle_call_tool(func, name),
                             response |-> serve_tools_call(handlers, "int:1", name, tout)])
  /\ UNCHANGED <<handlers, posts>>
  /\ UNCHANGED loopVars
  /\ UNCHANGED clientVars
  /\ UNCHANGED callVars
  /\ UNCHANGED appVars
  /\ UNCHANGED httpVars

\* resources/read, and a request for a method the server does not define
ServeOther(method, uri) ==
  /\ Len(calls) < MaxCalls
  /\ LET func == handlers.read_resource_handler
         r    == handle_read_resource(func, uri, conversation_history)
         sent == handle_request(
                   [kind |-> "object",
                    members |-> [id |-> "int:1", method |-> method, params |-> {"uri"}]],
                   handlers, IF r.raised THEN "raises" ELSE "returns")
     IN calls' = Append(calls,
                   [handler |-> sent.called, method |-> method, request |-> uri,
                    tout |-> IF r.raised THEN "raises" ELSE "returns",
                    outcome |-> [method |-> None],
                    response |-> IF "result" \in DOMAIN sent.response
                                   THEN [sent.response EXCEPT !.result = r.result]
                                   ELSE sent.response])
  /\ UNCHANGED <<handlers, posts>>
  /\ UNCHANGED loopVars
  /\ UNCHANGED clientVars
  /\ UNCHANGED callVars
  /\ UNCHANGED appVars
  /\ UNCHANGED httpVars

\* tools/call chat_with_llm reaches _handle_chat_with_llm: message is read
\* and the coroutine awaits generate_response (started is auxiliary: the
\* length of the history when the call began)
ChatStart(c, message) ==
  /\ chats[c].pc = "idle"
  /\ HistoryLen(conversation_history) + Cardinality(InFlight) < MaxChats
  /\ handle_call_tool(handlers.call_tool_handler, "chat_with_llm").method
       = "_handle_chat_with_llm"
  /\ chats' = [chats EXCEPT ![c] = [pc |-> "generating", message |-> message,
                                    started |-> HistoryLen(conversation_history)]]
  /\ UNCHANGED <<handlers, calls, posts>>
  /\ UNCHANGED loopVars
  /\ UNCHANGED clientVars
  /\ UNCHANGED callVars
  /\ UNCHANGED <<waited, registrations, conversation_history, completed, listed>>
  /\ UNCHANGED httpVars

\* the transcript entry of a chat (timestamp and parameters left out)
Entry(message, reply) == [user_message |-> message, llm_response |-> reply]

\* a slip: the id is made before generate_response is awaited
ChatGeneratedStaleId(c) ==
  /\ chats[c].pc = "generating"
  /\ LET conversation_id == "chat_" \o ToString(chats[c].started) IN
     conversation_history' =
       [k \in DOMAIN conversation_history \cup {conversation_id} |->
          IF k = conversation_id
            THEN Entry(chats[c].message, <<"reply to ", chats[c].message>>)
            ELSE conversation_history[k]]
  /\ completed' = completed + 1
  /\ chats' = [chats EXCEPT ![c] = IdleChats[c]]
  /\ UNCHANGED <<handlers, calls, posts>>
  /\ UNCHANGED loopVars
  /\ UNCHANGED clientVars
  /\ UNCHANGED callVars
  /\ UNCHANGED <<waited, registrations, listed>>
  /\ UNCHANGED httpVars

\* generate_response returns: conversation_id = f"chat_{len(history)}" and
\* history[conversation_id] = {...} run without an await between them, and
\* the call returns its result
ChatGenerated(c) ==
  /\ chats[c].pc = "generating"
  /\ LET conversation_id == "chat_" \o ToString(HistoryLen(conversation_history)) IN
     conversation_history' =
       [k \in DOMAIN conversation_history \cup {conversation_id} |->
          IF k = conversation_id
            THEN Entry(chats[c].message, <<"reply to ", chats[c].message>>)
            ELSE conversation_history[k]]
  /\ completed' = completed + 1
  /\ chats' = [chats EXCEPT ![c] = IdleChats[c]]
  /\ UNCHANGED <<handlers, calls, posts>>
  /\ UNCHANGED loopVars
  /\ UNCHANGED clientVars
  /\ UNCHANGED callVars
  /\ UNCHANGED <<waited, registrations, listed>>
  /\ UNCHANGED httpVars

\* a slip: the chat is stored although generate_response raised
ChatFailsStored(c) ==
  /\ chats[c].pc = "generating"
  /\ LET conversation_id == "chat_" \o ToString(HistoryLen(conversation_history)) IN
     conversation_history' =
       [k \in DOMAIN conversation_history \cup {conversation_id} |->
          IF k = conversation_id
            THEN Entry(chats[c].message, <<"fault">>)
            ELSE conversation_history[k]]
  /\ chats' = [chats EXCEPT ![c] = IdleChats[c]]
  /\ UNCHANGED <<handlers, calls, posts>>
  /\ UNCHANGED loopVars
  /\ UNCHANGED clientVars
  /\ UNCHANGED callVars
  /\ UNCHANGED <<waited, registrations, completed, listed>>
  /\ UNCHANGED httpVars

\* generate_response raises: nothing is stored
ChatFails(c) ==
  /\ chats[c].pc = "generating"
  /\ chats' = [chats EXCEPT ![c] = IdleChats[c]]
  /\ UNCHANGED <<handlers, calls, posts>>
  /\ UNCHANGED loopVars
  /\ UNCHANGED clientVars
  /\ UNCHANGED callVars
  /\ UNCHANGED <<waited, registrations, conversation_history, completed, listed>>
  /\ UNCHANGED httpVars

\* a server of either class after its construction
InitApp ==
  /\ \/ handlers = BaseHandlers /\ registrations = BaseRegistrations
     \/ handlers = DeenMateHandlers /\ registrations = DeenMateRegistrations
  /\ InitServerObject
  /\ InitHttp
  /\ InitLoop
  /\ NoCall

NextApp ==
  \/ \E method \in {"tools/list", "resources/list"} : ServeList(method)
  \/ \E name \in OtherCalls : CallTool(name, "returns")
  \/ CallTool("chat_with_llm", "raises")
  \/ ServeOther("resources/read", "llm://conversations/history")
  \/ ServeOther("nope", "llm://nope")
  \/ \E c \in Callers : \E message \in Messages : ChatStart(c, message)
  \/ \E c \in Callers : ChatGenerated(c)
  \/ \E c \in Callers : ChatFails(c)

SpecApp == InitApp /\ [][NextApp]_vars

\* the server object while it lists its tools and is sent tools/call for
\* every name a provider has, for chat_with_llm without a message, and for
\* a name no provider has
NextTools ==
  \/ \E method \in {"tools/list", "resources/list"} : ServeList(method)
  \/ \E name \in Range(BaseTools) \cup Range(IslamicTools) \cup Range(CodeTools)
                   \cup {"echo"} :
       \E tout \in ToolOutcomes : CallTool(name, tout)

SpecTools == InitApp /\ [][NextTools]_vars

\* ------------------------------------------------------------------------
\* The REST bridge (n8n-integration): get_mcp_server and POST /tools/call
\* ------------------------------------------------------------------------
\* the paths the app has a POST route for (@app.post)
PostRoutes ==
  {"/tools/call", "/resources/read", "/islamic/guidance", "/islamic/zakat",
   "/islamic/content", "/code/flutter", "/code/backend", "/code/web",
   "/workflows/trigger"}

\* the tools the clients of the REST bridge name: one that has a _handle_
\* method, one that is listed and has none, one that no provider has
HttpToolNames == {"islamic_guidance", "generate_flutter_feature", "echo"}

\* the body of a POST: a JSON-RPC Request for tools/call, or the body the
\* model MCPToolRequest describes
RpcBody(id, name) ==
  [kind |-> "rpc", jsonrpc |-> "2.0", id |-> id, method |-> "tools/call",
   params |-> [name |-> name]]
ToolBody(name) == [kind |-> "tool", tool_name |-> name]

HttpBodies ==
  {RpcBody(id, name) : id \in {"int:1", "str:a"}, name \in HttpToolNames}
    \cup {ToolBody(name) : name \in HttpToolNames}

\* the paths the clients post to: the route of call_tool, and the path the
\* stdio bridge of cursor-integration posts its requests to
HttpPaths == {"/tools/call", "/mcp"}

\* MCPToolRequest: tool_name is required
ValidToolRequest(body) == "tool_name" \in DOMAIN body

\* the reply of FastAPI to a request that reaches no endpoint function
NotFound == [status |-> 404, body |-> [detail |-> "Not Found"]]
Unprocessable == [status |-> 422, body |-> [detail |-> "Field required"]]

\* raise HTTPException(status_code=500, detail=str(e))
ServerError(detail) == [status |-> 500, body |-> [detail |-> detail]]

\* APIResponse(success=True, data={...}, message=...) (timestamp left out)
APIResponse(tool_name, result) ==
  [status |-> 200,
   body |-> [success |-> TRUE,
             data |-> [tool_name |-> tool_name, result |-> result.text,
                       is_error |-> result.isError],
             message |-> <<"Tool '", tool_name, "' executed successfully">>,
             error |-> None]]

\* a POST arrives on a connection: FastAPI finds the route and validates the
\* body against the model of the endpoint function
HttpReceive(c, path, body) ==
  /\ conns[c].pc = "idle"
  /\ conns' = [conns EXCEPT ![c] =
       IF path \notin PostRoutes
         THEN [@ EXCEPT !.pc = "replied", !.path = path, !.body = body,
                        !.reply = NotFound]
       ELSE IF ~ValidToolRequest(body)
         THEN [@ EXCEPT !.pc = "replied", !.path = path, !.body = body,
                        !.reply = Unprocessable]
       ELSE [@ EXCEPT !.pc = "get_mcp_server", !.path = path, !.body = body]]
  /\ UNCHANGED <<mcp_server, servers>>
  /\ UNCHANGED <<handlers, calls, posts>>
  /\ UNCHANGED loopVars
  /\ UNCHANGED clientVars
  /\ UNCHANGED callVars
  /\ UNCHANGED appVars

\* what llm_manager.initialize() does: it loads the model, or it raises
InitializeOutcomes == {"completes", "raises"}

\* server = await get_mcp_server(): if mcp_server is None the object is
\* constructed (its constructors run the eight decorators) and bound to the
\* global, then initialize() is awaited; it has no await of its own, so no
\* other coroutine runs before it completes or raises.  An exception reaches
\* the except clause of call_tool
GetMcpServer(c, init) ==
  /\ conns[c].pc = "get_mcp_server"
  /\ IF mcp_server = NoServer
       THEN /\ servers' = Append(servers, [initialized |-> init = "completes"])
            /\ mcp_server' = Len(servers) + 1
            /\ handlers' = DeenMateHandlers
            /\ registrations' = DeenMateRegistrations
            /\ IF init = "raises"
                 THEN conns' = [conns EXCEPT ![c].pc = "replied",
                                             ![c].reply = ServerError("initialize")]
                 ELSE conns' = [conns EXCEPT ![c].pc = "call",
                                             ![c].server = Len(servers) + 1]
       ELSE /\ conns' = [conns EXCEPT ![c].pc = "call", ![c].server = mcp_server]
            /\ UNCHANGED <<mcp_server, servers, handlers, registrations>>
  /\ UNCHANGED <<calls, posts>>
  /\ UNCHANGED loopVars
  /\ UNCHANGED clientVars
  /\ UNCHANGED callVars
  /\ UNCHANGED <<waited, conversation_history, chats, completed, listed>>

\* result = await server.server.call_tool_handler(mcp_request), and the
\* APIResponse made of it; except Exception: HTTPException(500).  On a
\* server whose model was never loaded generate_response raises
HttpCallTool(c, tout) ==
  /\ conns[c].pc = "call"
  /\ (~servers[conns[c].server].initialized) => tout = "raises"
  /\ LET name == conns[c].body.tool_name
         out  == call_tool_handler(handlers.call_tool_handler, name, tout)
     IN conns' = [conns EXCEPT ![c].pc = "replied",
                               ![c].reply = IF out.raised
                                              THEN ServerError(out.fault)
                                              ELSE APIResponse(name, out.result)]
  /\ UNCHANGED <<mcp_server, servers>>
  /\ UNCHANGED <<handlers, calls, posts>>
  /\ UNCHANGED loopVars
  /\ UNCHANGED clientVars
  /\ UNCHANGED callVars
  /\ UNCHANGED appVars

\* the app is served and no request has arrived: there is no server object
InitRest ==
  /\ handlers = NoHandlers
  /\ registrations = <<>>
  /\ InitServerObject
  /\ InitHttp
  /\ InitLoop
  /\ NoCall

NextRest ==
  \/ \E c \in Connections : \E path \in HttpPaths : \E body \in HttpBodies :
       HttpReceive(c, path, body)
  \/ \E c \in Connections : \E init \in InitializeOutcomes : GetMcpServer(c, init)
  \/ \E c \in Connections : \E tout \in ToolOutcomes : HttpCallTool(c, tout)

SpecRest == InitRest /\ [][NextRest]_vars

\* ------------------------------------------------------------------------
\* The wire form of a Response: json.dumps and the decoding of its text
\* ------------------------------------------------------------------------
\* longest string id and largest magnitude of an integer id that is encoded
MaxIdLen == 2
MaxIdInt == 12

\* JSON values as Python holds them: int, str (a sequence of characters),
\* None, and dict (its items in insertion order)
JInt(n)  == [type |-> "int", int |-> n]
JStr(s)  == [type |-> "str", str |-> s]
JNull    == [type |-> "null"]
JDict(m) == [type |-> "dict", items |-> m]

\* the characters of the string ids: a letter, a digit, the two characters
\* json escapes with a backslash and one character outside ASCII
IdChars == {"a", "1", "\"", "\\", "U+00E9"}

DecimalDigits == <<"0", "1", "2", "3", "4", "5", "6", "7", "8", "9">>

\* int(c) of a decimal digit
DigitValue(c) == CHOOSE n \in 0..9 : DecimalDigits[n + 1] = c

RECURSIVE NatText(_)
\* int.__repr__ of a natural number
NatText(n) ==
  IF n < 10 THEN <<DecimalDigits[n + 1]>>
  ELSE NatText(n \div 10) \o <<DecimalDigits[(n % 10) + 1]>>

\* int.__repr__
IntText(n) == IF n < 0 THEN <<"-">> \o NatText(0 - n) ELSE NatText(n)

\* a str written with no escapes at all
encode_basestring_verbatim(s) == <<"\"">> \o s \o <<"\"">>

RECURSIVE EscapeAll(_)
\* the characters each character of a str is written with (ensure_ascii)
EscapeAll(s) ==
  IF s = <<>> THEN <<>>
  ELSE LET c == Head(s) IN
       (CASE c = "\""    -> <<"\\", "\"">>
          [] c = "\\"    -> <<"\\", "\\">>
          [] c = "U+00E9" -> <<"\\", "u", "0", "0", "e", "9">>
          [] OTHER        -> <<c>>) \o EscapeAll(Tail(s))

\* json.encoder.encode_basestring_ascii
encode_basestring_ascii(s) == <<"\"">> \o EscapeAll(s) \o <<"\"">>

\* the characters of a literal of the source
Chars(name) ==
  CASE name = "jsonrpc" -> <<"j", "s", "o", "n", "r", "p", "c">>
    [] name = "id"      -> <<"i", "d">>
    [] name = "result"  -> <<"r", "e", "s", "u", "l", "t">>
    [] name = "error"   -> <<"e", "r", "r", "o", "r">>
    [] name = "code"    -> <<"c", "o", "d", "e">>
    [] name = "2.0"     -> <<"2", ".", "0">>

RECURSIVE dumps(_)
RECURSIVE DumpItems(_)
\* the items of a dict, separated by ", ", each as key ": " value
DumpItems(m) ==
  IF m = <<>> THEN <<>>
  ELSE encode_basestring_ascii(m[1][1]) \o <<":", Space>> \o dumps(m[1][2])
         \o (IF Len(m) = 1 THEN <<>> ELSE <<",", Space>> \o DumpItems(Tail(m)))

\* json.dumps(value) with the default separators
dumps(v) ==
  CASE v.type = "int"  -> IntText(v.int)
    [] v.type = "str"  -> encode_basestring_ascii(v.str)
    [] v.type = "null" -> <<"n", "u", "l", "l">>
    [] v.type = "dict" -> <<LBrace>> \o DumpItems(v.items) \o <<RBrace>>

RECURSIVE ScanString(_, _, _)
\* json.decoder.scanstring: the str that ends at the next unescaped quote
ScanString(buf, i, acc) ==
  IF i > Len(buf) THEN NoValue
  ELSE IF buf[i] = "\"" THEN [ok |-> TRUE, val |-> JStr(acc), idx |-> i + 1]
  ELSE IF buf[i] = "\\"
    THEN IF i + 1 > Len(buf) THEN NoValue
         ELSE IF buf[i + 1] \in {"\"", "\\"}
           THEN ScanString(buf, i + 2, Append(acc, buf[i + 1]))
         ELSE IF /\ buf[i + 1] = "u"
                 /\ i + 5 <= Len(buf)
                 /\ SubSeq(buf, i + 2, i + 5) = <<"0", "0", "e", "9">>
           THEN ScanString(buf, i + 6, Append(acc, "U+00E9"))
         ELSE NoValue
  ELSE ScanString(buf, i + 1, Append(acc, buf[i]))

RECURSIVE ScanDigits(_, _, _)
\* the natural number written at i, and the index behind it
ScanDigits(buf, i, n) ==
  IF i <= Len(buf) /\ buf[i] \in Range(DecimalDigits)
    THEN ScanDigits(buf, i + 1, 10 * n + DigitValue(buf[i]))
    ELSE [val |-> n, idx |-> i]

\* json.scanner: an integer literal ("-"? then 0 or a digit string that
\* does not start with 0)
ScanInt(buf, i) ==
  LET neg == buf[i] = "-"
      j   == IF neg THEN i + 1 ELSE i
  IN IF j > Len(buf) \/ ~buf[j] \in Range(DecimalDigits) THEN NoValue
     ELSE IF buf[j] = "0" THEN [ok |-> TRUE, val |-> JInt(0), idx |-> j + 1]
     ELSE LET d == ScanDigits(buf, j, 0)
          IN [ok |-> TRUE, val |-> JInt(IF neg THEN 0 - d.val ELSE d.val),
              idx |-> d.idx]

RECURSIVE ScanValue(_, _)
RECURSIVE ScanItems(_, _, _)
\* json.decoder.JSONObject behind "{": "key": value items until "}"
ScanItems(buf, i, acc) ==
  IF i > Len(buf) \/ buf[i] # "\"" THEN NoValue
  ELSE LET key == ScanString(buf, i + 1, <<>>) IN
       IF ~key.ok THEN NoValue
       ELSE LET c == WsEnd(buf, key.idx) IN
            IF c > Len(buf) \/ buf[c] # ":" THEN NoValue
            ELSE LET value == ScanValue(buf, WsEnd(buf, c + 1)) IN
                 IF ~value.ok THEN NoValue
                 ELSE LET items == Append(acc, <<key.val.str, value.val>>)
                          e     == WsEnd(buf, value.idx)
                      IN IF e > Len(buf) THEN NoValue
                         ELSE IF buf[e] = RBrace
                           THEN [ok |-> TRUE, val |-> JDict(items), idx |-> e + 1]
                         ELSE IF buf[e] = ","
                           THEN ScanItems(buf, WsEnd(buf, e + 1), items)
                         ELSE NoValue

\* json.scanner.py_make_scanner._scan_once: the value that starts at i
ScanValue(buf, i) ==
  IF i > Len(buf) THEN NoValue
  ELSE IF buf[i] = "\"" THEN ScanString(buf, i + 1, <<>>)
  ELSE IF buf[i] = LBrace
    THEN LET j == WsEnd(buf, i + 1) IN
         IF j <= Len(buf) /\ buf[j] = RBrace
           THEN [ok |-> TRUE, val |-> JDict(<<>>), idx |-> j + 1]
           ELSE ScanItems(buf, j, <<>>)
  ELSE IF /\ i + 3 <= Len(buf)
          /\ SubSeq(buf, i, i + 3) = <<"n", "u", "l", "l">>
    THEN [ok |-> TRUE, val |-> JNull, idx |-> i + 4]
  ELSE IF buf[i] = "-" \/ buf[i] \in Range(DecimalDigits) THEN ScanInt(buf, i)
  ELSE NoValue

\* json.loads(text): the value, if the text is one value and whitespace
loads(text) ==
  LET r == ScanValue(text, WsEnd(text, 1)) IN
  IF r.ok /\ WsEnd(text, r.idx) > Len(text) THEN [ok |-> TRUE, val |-> r.val]
  ELSE NoValue

\* dict.get(key) on a decoded dict; a key written twice has its last value
ItemOf(d, key) ==
  LET S == {k \in 1..Len(d.items) : d.items[k][1] = key} IN
  IF S = {} THEN JNull
  ELSE d.items[CHOOSE k \in S : \A l \in S : l <= k][2]

RECURSIVE StringsUpTo(_)
\* the strings of at most n characters
StringsUpTo(n) ==
  IF n = 0 THEN {<<>>}
  ELSE LET S == StringsUpTo(n - 1) IN S \cup {Append(s, c) : s \in S, c \in IdChars}

\* the ids a Response is encoded with
WireIds ==
  {JNull} \cup {JInt(n) : n \in (0 - MaxIdInt)..MaxIdInt}
          \cup {JStr(s) : s \in StringsUpTo(MaxIdLen)}

\* the Responses handle_request builds, as Python values: with a result,
\* and with an error
WireResponses ==
  LET Envelope(id, key, value) ==
        JDict(<< <<Chars("jsonrpc"), JStr(Chars("2.0"))>>, <<Chars("id"), id>>,
                 <<Chars(key), value>> >>)
  IN {Envelope(id, "result", JDict(<<>>)) : id \in WireIds}
       \cup {Envelope(id, "error", JDict(<< <<Chars("code"), JInt(InternalError)>> >>)) :
               id \in WireIds}

InitWire ==
  /\ handlers = BaseHandlers
  /\ registrations = BaseRegistrations
  /\ InitServerObject
  /\ InitHttp
  /\ InitLoop
  /\ arg \in WireResponses
  /\ hout = None
  /\ ds = None
  /\ op = None
  /\ ret = NoValue

\* response_json = json.dumps(response); print(response_json)
DumpResponse ==
  /\ op = None
  /\ op' = "dumps"
  /\ buffer' = dumps(arg) \o <<NL>>
  /\ UNCHANGED <<arg, hout, ds, ret, handlers, calls, posts>>
  /\ UNCHANGED <<pc, cur, response, stdout, stderr, received, decoded>>
  /\ UNCHANGED clientVars
  /\ UNCHANGED appVars
  /\ UNCHANGED httpVars

\* the reader of the line decodes it
LoadResponse ==
  /\ op = "dumps"
  /\ op' = "loads"
  /\ ret' = loads(buffer)
  /\ UNCHANGED <<arg, hout, ds, buffer, handlers, calls, posts>>
  /\ UNCHANGED <<pc, cur, response, stdout, stderr, received, decoded>>
  /\ UNCHANGED clientVars
  /\ UNCHANGED appVars
  /\ UNCHANGED httpVars

NextWire ==
  \/ DumpResponse
  \/ LoadResponse

SpecWire == InitWire /\ [][NextWire]_vars

\* ------------------------------------------------------------------------
\* Properties
\* ------------------------------------------------------------------------
\* the call has been made and returned (no exception escaped)
Returned(f) == op = f /\ ~ret.raised

\* the id a Response to the value must carry: the id member, null without it
IdOf(value) == IF "id" \in DOMAIN value.members THEN value.members.id ELSE None

\* C5: the dispatcher never raises: whatever decoded value handle_request is
\* given, an object or not, it returns a Response and no exception escapes.
C5_DispatcherNeverRaises ==
  op = "handle_request" =>
    /\ ~ret.raised
    /\ ret.response.jsonrpc = "2.0"

\* C7: a request whose method is none of the four defined methods is answered
\* with the error -32601 "Method not found: <method>", its id echoed, and no
\* handler is called.
C7_UnknownMethod ==
  (/\ op = "handle_request"
   /\ arg.kind = "object"
   /\ (IF "method" \in DOMAIN arg.members
         THEN arg.members.method ELSE "None") \notin DefinedMethods)
  => /\ ~ret.raised
     /\ ret.called = None
     /\ ret.response =
          [jsonrpc |-> "2.0",
           id |-> IdOf(arg),
           error |-> [code |-> -32601,
                      message |-> <<"Method not found: ",
                                    IF "method" \in DOMAIN arg.members
                                      THEN arg.members.method ELSE "None">>]]

\* C7 witness: the request {"id": "a", "method": "foo/bar"} has been dispatched
\* on a server that has all four handlers.
C7_Witness ==
  /\ op = "handle_request"
  /\ handlers = BaseHandlers
  /\ arg = [kind |-> "object", members |-> [id |-> "str:a", method |-> "foo/bar"]]

\* C8: every Response that handle_request returns, and every Response that
\* forward_request makes up itself (a body relayed from the downstream is not
\* one), has jsonrpc "2.0", exactly one of result and error, and the id of
\* the request, null when the request has id null or no id.
C8_Envelope ==
  (\/ Returned("handle_request")
   \/ Returned("forward_request") /\ ds \notin JsonBodies)
  => /\ ret.response.jsonrpc = "2.0"
     /\ ("result" \in DOMAIN ret.response) # ("error" \in DOMAIN ret.response)
     /\ DOMAIN ret.response \subseteq {"jsonrpc", "id", "result", "error"}
     /\ "id" \in DOMAIN ret.response
     /\ ret.response.id = IdOf(arg)

\* C8 witness: a request without an id has been answered with a result.
C8_Witness ==
  /\ Returned("handle_request")
  /\ "id" \notin DOMAIN arg.members
  /\ "result" \in DOMAIN ret.response
  /\ ret.response.id = None

\* ------------------------------------------------------------------------
\* Properties of the read loops
\* ------------------------------------------------------------------------
RECURSIVE Framed(_)
\* what a framer that meets its contract makes of a text: the values of the
\* text in order, whitespace between them skipped, and whether the whole
\* text is made of complete request objects and whitespace
Framed(text) ==
  LET rest == lstrip(text)
      r    == raw_decode(rest)
  IN IF rest = <<>> THEN [valid |-> TRUE, values |-> <<>>]
     ELSE IF r.ok /\ r.obj.kind = "object"
       THEN LET tail == Framed(Slice(rest, r.idx)) IN
            [valid |-> tail.valid, values |-> <<r.obj>> \o tail.values]
     ELSE [valid |-> FALSE, values |-> <<>>]

\* the text is K >= 1 request objects with optional whitespace between them
\* (and after the last)
IsRequestStream(text) ==
  /\ text # <<>>
  /\ text[1] = LBrace
  /\ Framed(text).valid

\* every value decoded so far is a request object
OnlyObjects == \A i \in 1..Len(decoded) : decoded[i].kind = "object"

\* the loop is between two requests: nothing is decoded and not yet answered
Idle == pc \in {"read", "decode", "done"}

\* C1: chunk-boundary independence: when the lines read so far are K request
\* objects with optional whitespace between them, however the line feeds cut
\* the text into reads, the loop has decoded exactly those K values, in order,
\* once it waits for the next line.
C1_ChunkIndependence ==
  (pc = "read" /\ IsRequestStream(received)) =>
    decoded = Framed(received).values

\* a token that cannot start any JSON value
CorruptHead(buf) == buf # <<>> /\ buf[1] \in {RBrack, RBrace} \cup BodyTokens

\* C2: skip-and-report: the framer advances the buffer past text that cannot
\* be a prefix of a JSON value, so the loop never waits for more input with
\* such text at the head of the buffer.
C2_SkipCorrupt == pc = "read" => ~CorruptHead(buffer)

\* C3: strict ordering: the handler for request N+1 is called only when the
\* responses to the N requests before it have been written, and the
\* responses on stdout answer the decoded requests in their order.
C3_StrictOrdering ==
  /\ Len(stdout) <= Len(decoded)
  /\ Len(decoded) <= Len(stdout) + 1
  /\ pc = "handle" => Len(stdout) = Len(decoded) - 1
  /\ \A i \in 1..Len(stdout) :
       /\ decoded[i].kind = "object"
       /\ stdout[i].id = IdOf(decoded[i])

\* C3 witness: two requests came in one line and both are answered.
C3_Witness ==
  /\ received = RequestText("b_list") \o RequestText("b_nope") \o <<NL>>
  /\ Len(stdout) = 2
  /\ stdout[1].id = "str:a"
  /\ stdout[2].id = "int:2"

\* C4: no request is dropped: as long as the values decoded are request
\* objects, whenever the loop is between two requests it has written as many
\* responses as it has decoded requests, whatever failed in them, and it only
\* ends at the end of the input.
C4_NoSilentDrop ==
  OnlyObjects =>
    /\ Idle => Len(stdout) = Len(decoded)
    /\ ~Idle => Len(stdout) = Len(decoded) - 1
    /\ pc = "done" => closed /\ pipe = <<>>

\* C4 witness: invalid params, then a handler fault, then an unknown method:
\* three requests, three responses.
C4_Witness ==
  /\ Len(decoded) = 3
  /\ Len(stdout) = 3
  /\ decoded[1].members.method = "tools/call"
  /\ "error" \in DOMAIN stdout[1]
  /\ Len(calls) = 1 /\ calls[1].request = 2 /\ calls[1].outcome = "raises"
  /\ decoded[3].members.method = "nope"

\* C6: handler failure isolation: a request whose handler raised is answered
\* with the error -32603, a message made from the fault and its own id; the
\* request after it is still dispatched to its handler and answered with the
\* result and its own id; the fault does not end the loop.
C6_FailureIsolation ==
  /\ \A j \in 1..Len(calls) :
       (calls[j].outcome = "raises" /\ calls[j].request <= Len(stdout)) =>
         stdout[calls[j].request] =
           [jsonrpc |-> "2.0",
            id |-> IdOf(decoded[calls[j].request]),
            error |-> [code |-> -32603,
                       message |-> <<"Internal error: ", "handler fault">>]]
  /\ \A j \in 1..Len(calls) :
       (/\ j > 1
        /\ calls[j - 1].outcome = "raises"
        /\ calls[j].outcome = "returns"
        /\ calls[j].request <= Len(stdout)) =>
         /\ "result" \in DOMAIN stdout[calls[j].request]
         /\ "error" \notin DOMAIN stdout[calls[j].request]
         /\ stdout[calls[j].request].id = IdOf(decoded[calls[j].request])
  /\ (OnlyObjects /\ pc = "done") => closed

\* C6 witness: the handler raised for request 1 and returned for request 2,
\* and both are answered.
C6_Witness ==
  /\ Len(calls) = 2
  /\ calls[1].request = 1 /\ calls[1].outcome = "raises"
  /\ calls[2].request = 2 /\ calls[2].outcome = "returns"
  /\ Len(stdout) = 2

\* C9: one Response per forwarded request: whatever the downstream does and
\* whatever the request is, whenever the bridge is between two requests it
\* has written as many response lines as it has decoded requests.
C9_OneResponsePerRequest == Idle => Len(stdout) = Len(decoded)

\* the text starts with a whole request object whose id is not the given one
StartsWithOtherRequest(text, id) ==
  /\ raw_decode(text).ok
  /\ raw_decode(text).obj.kind = "object"
  /\ IdOf(raw_decode(text).obj) # id

\* the client has written a whole request, with another id than the one in
\* flight, that the bridge has not forwarded
RequestHeldBack ==
  \/ StartsWithOtherRequest(lstrip(Slice(buffer, cur.idx)), IdOf(cur.obj))
  \/ StartsWithOtherRequest(pipe, IdOf(cur.obj))

\* C10: overlapping forwards: a request is forwarded without waiting for the
\* answer to the one before it, so no whole request with another id is held
\* back while the bridge awaits the downstream for a request.
C10_OverlappingForwards ==
  (pc = "await" /\ cur.obj.kind = "object") => ~RequestHeldBack

\* ------------------------------------------------------------------------
\* The bridge's answers
\* ------------------------------------------------------------------------
\* the downstream did not deliver an answer: another status than 200, no
\* answer within the time, or no connection
TransportFailures == {"http500", "timeout", "connfail"}

\* C11: bridge failure translation: when the downstream returns a non-200
\* status, or the timeout elapses, or the connection fails, forward_request
\* called with a request object returns an error Response with code -32603,
\* the message of the failure class ("HTTP Error: 500", "Request timeout",
\* "Bridge error: ...") and the id of the request (null when it has none).
C11_FailureTranslation ==
  (op = "forward_request" /\ arg.kind = "object" /\ ds \in TransportFailures) =>
    /\ ~ret.raised
    /\ DOMAIN ret.response = {"jsonrpc", "id", "error"}
    /\ ret.response.jsonrpc = "2.0"
    /\ ret.response.id = IdOf(arg)
    /\ DOMAIN ret.response.error = {"code", "message"}
    /\ ret.response.error.code = -32603
    /\ ret.response.error.message =
         CASE ds = "http500"  -> <<"HTTP Error: ", "500">>
           [] ds = "timeout"  -> <<"Request timeout">>
           [] ds = "connfail" -> <<"Bridge error: ", "ClientConnectorError">>

\* a request with an integer id was forwarded and the time ran out
C11_Witness ==
  /\ op = "forward_request"
  /\ arg.kind = "object"
  /\ IdOf(arg) = "int:1"
  /\ ds = "timeout"
  /\ ~ret.raised
  /\ ret.response.id = "int:1"
  /\ ret.response.error.message = <<"Request timeout">>

\* the downstream answered 200 with a well-formed Response
WellFormedAnswers == {"echo", "otherid"}

\* C13: relay unchanged: when the downstream answers 200 with a well-formed
\* Response, forward_request returns exactly the Response the downstream
\* sent: the same members with the same values, the id included, whatever
\* the request was.
C13_RelayUnchanged ==
  (op = "forward_request" /\ ds \in WellFormedAnswers) =>
    /\ ~ret.raised
    /\ DOMAIN ret.response = {"jsonrpc", "id", "result"}
    /\ ret.response.jsonrpc = "2.0"
    /\ ret.response.result = [type |-> "downstream"]
    /\ ret.response.id =
         IF ds = "otherid" THEN "int:99"
         ELSE IF arg.kind = "object" THEN IdOf(arg) ELSE None

\* the downstream answered a request of id "a" with a Response of id 99, and
\* that Response came back as it was
C13_Witness ==
  /\ op = "forward_request"
  /\ arg.kind = "object"
  /\ IdOf(arg) = "str:a"
  /\ ds = "otherid"
  /\ ~ret.raised
  /\ ret.response = [jsonrpc |-> "2.0", id |-> "int:99",
                     result |-> [type |-> "downstream"]]

\* ------------------------------------------------------------------------
\* Incomplete input and the end of the stream
\* ------------------------------------------------------------------------
\* the tokens that can close a value that has been opened
Completions ==
  {<<RBrace>>, <<RBrack>>, <<Digit, RBrack>>} \cup {<<b, RBrace>> : b \in BodyTokens}

\* the text starts a JSON value, does not hold the whole of it, and some more
\* tokens complete it
IncompletePrefix(buf) ==
  /\ buf # <<>>
  /\ buf[1] \in {LBrace, LBrack}
  /\ ~raw_decode(buf).ok
  /\ \E tail \in Completions : raw_decode(buf \o tail).ok

\* what has been read and is no longer in the buffer
Consumed == SubSeq(received, 1, Len(received) - Len(buffer))

\* the loop waits for a line with nothing or the start of a value in the buffer
AwaitingInput == pc = "read" /\ (buffer = <<>> \/ IncompletePrefix(buffer))

\* while the buffer holds the start of a value and the loop is between two
\* requests, a step decodes nothing, prints nothing and keeps the buffer: the
\* buffer is the same or, after the next line, the same with that line added
RetainsIncomplete ==
  (pc \in {"read", "decode"} /\ IncompletePrefix(buffer)) =>
    /\ decoded' = decoded
    /\ stdout' = stdout
    /\ Len(buffer') >= Len(buffer)
    /\ SubSeq(buffer', 1, Len(buffer)) = buffer
    /\ (pc = "decode" => buffer' = buffer /\ pc' \in {"decode", "read"})

\* when the loop waits for a line, the text that has left the buffer has
\* been decoded value by value, each value once, and each has its response
DecodedOnce ==
  (AwaitingInput /\ Framed(Consumed).valid) =>
    /\ Consumed \o buffer = received
    /\ decoded = Framed(Consumed).values
    /\ Len(stdout) = Len(decoded)

\* C14: incomplete input is retained: while the buffer holds a valid but
\* incomplete prefix of a JSON value the loop decodes nothing, writes no
\* response and leaves the buffer as it is; once the remaining text has
\* arrived in later lines, the completed value has been decoded exactly once.
C14_IncompleteRetained == []DecodedOnce /\ [][RetainsIncomplete]_vars

\* a request written over two lines: the first line left "{\n" in the
\* buffer, the second completed it, and it was decoded and answered once
C14_Witness ==
  /\ pc = "read"
  /\ received = PrettyText("b_nope") \o <<NL>>
  /\ buffer = <<>>
  /\ decoded = <<[kind |-> "object", members |-> BodyOf("b_nope")]>>
  /\ Len(stdout) = 1

\* once the loop has ended it takes no step: nothing is printed, decoded or
\* read any more
StaysTerminated ==
  pc = "done" =>
    /\ pc' = "done"
    /\ stdout' = stdout
    /\ decoded' = decoded
    /\ buffer' = buffer
    /\ received' = received

\* the step that ends the loop prints no response, whatever the buffer holds
EndsWithoutResponse == (pc # "done" /\ pc' = "done") => stdout' = stdout

\* a read that meets the end of the stream, or raises, ends the loop there
EndsOnClosure ==
  /\ (pc = "read" /\ closed /\ pipe = <<>> /\ pc' # pc) => pc' = "done"
  /\ (pc = "read" /\ stderr' # stderr) => pc' = "done"

\* C15: termination on stream closure or read failure: when stdin reports
\* the end of the stream or a read raises, the read loop ends (once the
\* stream is closed the loop does end), no response is written by the step
\* that ends it nor after it, also when the buffer still holds an incomplete
\* message.
C15_Termination ==
  /\ [][StaysTerminated /\ EndsWithoutResponse /\ EndsOnClosure]_vars
  /\ (closed ~> pc = "done")

\* the stream ended after the first line of a request: the loop has ended,
\* the incomplete message is still in the buffer and has no response
C15_Witness ==
  /\ pc = "done"
  /\ closed
  /\ IncompletePrefix(buffer)
  /\ Len(decoded) = 1
  /\ Len(stdout) = 1

\* the Response forward_request makes up for a request that got no answer
TimeoutResponse(request) ==
  [jsonrpc |-> "2.0", id |-> IdOf(request),
   error |-> [code |-> -32603, message |-> <<"Request timeout">>]]

\* the step the loop takes when the time is up hands the timeout Response,
\* with the id of the request, to the loop for printing
AnswersWhenTimeIsUp ==
  (pc = "await" /\ waited = ClientTimeout /\ pc' # pc) =>
    /\ pc' = "write"
    /\ response' = TimeoutResponse(cur.obj)

\* every request posted is answered on stdout and the loop goes on to decode
\* what follows it, whether the downstream answers or not
NeverWaitsForEver ==
  \A n \in 0..MaxBridgePieces :
    (pc = "await" /\ Len(posts) = n) ~> (pc = "decode" /\ Len(stdout) = n + 1)

\* C12: bounded wait on a silent downstream: a forwarded request never waits
\* longer than the timeout of 30 seconds; when the time is up forward_request
\* returns the -32603 "Request timeout" Response with the id of the request,
\* the loop prints it and goes on with the next request.
C12_BoundedWait ==
  /\ [](waited <= ClientTimeout)
  /\ [][AnswersWhenTimeIsUp]_vars
  /\ NeverWaitsForEver

\* the first request got no answer for 30 seconds and was answered with the
\* timeout Response; the second request was then forwarded and answered
C12_Witness ==
  /\ Len(posts) = 2
  /\ posts[1] = "timeout"
  /\ posts[2] = "echo"
  /\ Len(stdout) = 2
  /\ stdout[1] = TimeoutResponse(decoded[1])
  /\ stdout[2].id = IdOf(decoded[2])
  /\ stdout[1].id # stdout[2].id

\* ------------------------------------------------------------------------
\* The registry
\* ------------------------------------------------------------------------
\* the function the most recent registration of the slot passed, None when
\* the slot was never registered
LastRegistered(slot) ==
  LET idx == {i \in 1..Len(registrations) : registrations[i].slot = slot} IN
  IF idx = {} THEN None
  ELSE registrations[CHOOSE i \in idx : \A j \in idx : j <= i].func

\* each slot holds what was registered for it last, and a request is served
\* by that function and no other
ServesLastRegistered ==
  /\ \A s \in Slots : handlers[s] = LastRegistered(s)
  /\ op = "handle_request" =>
       ret.called = LastRegistered(HandlerSlot(arg.members.method))

\* a binding changes only in the registration of its own slot
OnlyOwnSlot ==
  \A s \in Slots :
    handlers'[s] # handlers[s] =>
      registrations' = Append(registrations, Registration(s, handlers'[s]))

\* C17: re-registration overwrites: after any sequence of registrations a
\* request for one of the four methods invokes the handler registered for
\* it most recently and never an earlier one, and a registration changes no
\* binding but that of its own slot.
C17_Reregistration == []ServesLastRegistered /\ [][OnlyOwnSlot]_vars

\* the base class registered its handlers for tools/list and tools/call, the
\* subclass registered its own for tools/call, and a tools/call request was
\* served by the handler of the subclass
C17_Witness ==
  /\ registrations =
       <<Registration("tools_handler", BaseHandlers.tools_handler),
         Registration("call_tool_handler", BaseHandlers.call_tool_handler),
         Registration("call_tool_handler", DeenMateHandlers.call_tool_handler)>>
  /\ handlers.tools_handler = BaseHandlers.tools_handler
  /\ op = "handle_request"
  /\ arg.members.method = "tools/call"
  /\ ret.called = DeenMateHandlers.call_tool_handler

\* ------------------------------------------------------------------------
\* The conversation history, the registry and the listings while requests
\* are served
\* ------------------------------------------------------------------------
\* the history holds one record per chat that returned a result, under the
\* keys chat_0, chat_1, ... with no key used twice
OneRecordPerChat ==
  /\ HistoryLen(conversation_history) = completed
  /\ DOMAIN conversation_history = {"chat_" \o ToString(i) : i \in 0..(completed - 1)}

\* a step keeps every record there is as it is, and the step in which a chat
\* returns its result adds exactly one key
AppendOnly ==
  /\ \A k \in DOMAIN conversation_history :
       /\ k \in DOMAIN conversation_history'
       /\ conversation_history'[k] = conversation_history[k]
  /\ completed' # completed =>
       /\ completed' = completed + 1
       /\ HistoryLen(conversation_history') = HistoryLen(conversation_history) + 1

\* C16: conversation records are append-only with never-reused ids: under
\* any interleaving of chat_with_llm calls every stored record has its own
\* key, each chat that returns a result adds exactly one new key, and no
\* stored record is ever overwritten, changed or removed.
C16_AppendOnlyHistory == []OneRecordPerChat /\ [][AppendOnly]_vars

\* two calls overlapped: one began on the empty history and still waits for
\* generate_response while two others have stored their records
C16_Witness ==
  /\ chats["c1"].pc = "generating"
  /\ chats["c1"].started = 0
  /\ completed = 2
  /\ DOMAIN conversation_history = {"chat_0", "chat_1"}
  /\ conversation_history["chat_0"].user_message = "m2"
  /\ conversation_history["chat_1"].user_message = "m1"

\* serving a request binds no handler
RegistryReadOnly == handlers' = handlers /\ registrations' = registrations

\* two listings of the same method returned the same sequence
SameListing ==
  \A i, j \in 1..Len(listed) :
    listed[i].method = listed[j].method => listed[i].result = listed[j].result

\* C18: the registry is read-only after startup and dispatch is stateless:
\* serving requests never changes the four handler bindings, and any two
\* tools/list (or resources/list) requests of a process return the same
\* sequence, whatever was served between them; of the state of the server
\* object only the conversation history changes.
C18_ReadOnlyRegistry == []SameListing /\ [][RegistryReadOnly]_vars

\* the DeenMate server listed its tools twice, and a chat has stored a
\* record and another tool was called in the same process
C18_Witness ==
  /\ handlers = DeenMateHandlers
  /\ Len(listed) = 2
  /\ listed[1].method = "tools/list"
  /\ listed[2].method = "tools/list"
  /\ completed >= 1
  /\ calls # <<>>

\* what is left of a sequence after its first n elements
Drop(seq, n) == SubSeq(seq, n + 1, Len(seq))

\* a listing of the tools starts with the base tools, chat_with_llm first;
\* on the DeenMate server the Islamic tools and then the code-generation
\* tools follow, each provider's entries in its own order and nothing else;
\* a listing of the resources is the base resources, followed on the
\* DeenMate server by the Islamic resources
FullMergedListing(e) ==
  IF e.method = "tools/list"
    THEN /\ e.result[1] = "chat_with_llm"
         /\ SubSeq(e.result, 1, 5) = BaseTools
         /\ Drop(e.result, 5) =
              (IF handlers = DeenMateHandlers THEN IslamicTools \o CodeTools ELSE <<>>)
         /\ Len(e.result) = (IF handlers = DeenMateHandlers THEN 20 ELSE 5)
    ELSE /\ SubSeq(e.result, 1, 3) = BaseResources
         /\ Drop(e.result, 3) =
              (IF handlers = DeenMateHandlers THEN IslamicResources ELSE <<>>)
         /\ Len(e.result) = (IF handlers = DeenMateHandlers THEN 7 ELSE 3)

\* C20: listing is the full merged, insertion-ordered sequence: tools/list
\* returns the entries of every provider in registration order (base tools
\* starting with chat_with_llm, then Islamic tools, then code-generation
\* tools on the DeenMate server), none dropped; resources/list returns the
\* base resources followed by the Islamic resources.
C20_FullListing == \A i \in 1..Len(listed) : FullMergedListing(listed[i])

\* the DeenMate server has listed its 20 tools and its 7 resources
C20_Witness ==
  /\ handlers = DeenMateHandlers
  /\ \E i \in 1..Len(listed) :
       /\ listed[i].method = "tools/list"
       /\ Len(listed[i].result) = 20
       /\ listed[i].result[20] = "generate_documentation"
  /\ \E i \in 1..Len(listed) :
       /\ listed[i].method = "resources/list"
       /\ Len(listed[i].result) = 7

\* ------------------------------------------------------------------------
\* The error codes
\* ------------------------------------------------------------------------
\* the request is a tools/call or a resources/read whose params do not pass
\* the validation of its request type: a member is missing, or params is
\* absent ({} is validated in its place)
InvalidParamsRequest ==
  /\ arg.kind = "object"
  /\ Get(arg.members, "method", None) \in {"tools/call", "resources/read"}
  /\ ~ParamsValid(arg.members.method, Get(arg.members, "params", {}))

\* C21: every error Response that handle_request returns or forward_request
\* makes up carries the code -32601 or -32603 and no other; a tools/call or
\* resources/read with invalid params, on a server that has the handler of
\* the method, is answered with -32603 (and so never with -32602).
C21_ErrorCodes ==
  /\ ((\/ Returned("handle_request")
       \/ Returned("forward_request") /\ ds \notin JsonBodies)
      /\ "error" \in DOMAIN ret.response)
     => ret.response.error.code \in {-32601, -32603}
  /\ (/\ op = "handle_request"
      /\ InvalidParamsRequest
      /\ handlers[HandlerSlot(arg.members.method)] # None)
     => /\ ~ret.raised
        /\ "error" \in DOMAIN ret.response
        /\ "result" \notin DOMAIN ret.response
        /\ ret.response.error.code = -32603

\* C21 witness: a tools/call whose params lack "arguments" has been answered
\* by a server that has its handlers.
C21_Witness ==
  /\ op = "handle_request"
  /\ handlers = BaseHandlers
  /\ arg.kind = "object"
  /\ Get(arg.members, "method", None) = "tools/call"
  /\ Get(arg.members, "params", {}) = {"name"}
  /\ ~ret.raised
  /\ ret.response.error.code = -32603

\* ------------------------------------------------------------------------
\* The HTTP adapter
\* ------------------------------------------------------------------------
\* the value is a JSON-RPC Response that carries the id
IsResponseTo(value, id) ==
  /\ {"jsonrpc", "id"} \subseteq DOMAIN value
  /\ value.jsonrpc = "2.0"
  /\ value.id = id
  /\ ("result" \in DOMAIN value) # ("error" \in DOMAIN value)

\* C22: HTTP adapter: a POST whose body is one JSON-RPC Request is decoded,
\* dispatched and answered with exactly one JSON-RPC Response as the HTTP
\* body, its own, whatever other requests are in flight and in whatever
\* order they complete.
C22_HttpAdapter ==
  \A c \in Connections :
    (conns[c].pc = "replied" /\ conns[c].body.kind = "rpc") =>
      IsResponseTo(conns[c].reply.body, conns[c].body.id)

C23_RoundTrip ==
  op = "loads" =>
    /\ ret.ok
    /\ ret.val.type = "dict"
    /\ ItemOf(ret.val, Chars("id")).type = ItemOf(arg, Chars("id")).type
    /\ ItemOf(ret.val, Chars("id")) = ItemOf(arg, Chars("id"))

\* C23 witness: a Response whose id is the string "1" has been encoded and
\* decoded, and its id is still a string (the integer 1 is written 1).
C23_Witness ==
  /\ op = "loads"
  /\ ItemOf(arg, Chars("id")) = JStr(<<"1">>)
  /\ ret.ok
  /\ ItemOf(ret.val, Chars("id")).type = "str"

\* ------------------------------------------------------------------------
\* Properties of a server without handlers
\* ------------------------------------------------------------------------
\* C27: a request for one of the four defined methods on an McpServer that
\* has no handler registered for the method is answered with the error
\* -32601 "Method not found: <method>" and the id echoed, as a request for
\* an unknown method is; no handler is called and nothing is raised.
C27_UnsetHandler ==
  (/\ op = "handle_request"
   /\ arg.kind = "object"
   /\ Get(arg.members, "method", None) \in DefinedMethods
   /\ handlers[HandlerSlot(arg.members.method)] = None)
    => /\ ~ret.raised
       /\ ret.called = None
       /\ ret.response =
            [jsonrpc |-> "2.0", id |-> IdOf(arg),
             error |-> [code |-> -32601,
                        message |-> <<"Method not found: ", arg.members.method>>]]
       /\ LET unknown == handle_request([arg EXCEPT !.members.method = "nope"],
                                        handlers, hout)
          IN /\ ~unknown.raised
             /\ unknown.called = ret.called
             /\ DOMAIN unknown.response = DOMAIN ret.response
             /\ unknown.response.id = ret.response.id
             /\ unknown.response.error.code = ret.response.error.code
             /\ unknown.response.error.message[1] = ret.response.error.message[1]

\* C27 witness: resources/read with an id has been answered by an McpServer
\* that has no handlers.
C27_Witness ==
  /\ op = "handle_request"
  /\ handlers = NoHandlers
  /\ arg.kind = "object"
  /\ Get(arg.members, "method", None) = "resources/read"
  /\ Get(arg.members, "id", None) = "int:1"
  /\ ~ret.raised
  /\ ret.response.error.code = -32601

\* ------------------------------------------------------------------------
\* Properties of tools/call
\* ------------------------------------------------------------------------
\* C24: every tool is callable if it is listed: for every name that
\* tools/list returns on the DeenMate server, tools/call with that name and
\* valid arguments reaches a handler method that exists, so that it is never
\* answered with an error only because the chain has no implementation for
\* the name.
C24_ListedCallable ==
  \A i \in 1..Len(listed) : \A j \in 1..Len(calls) :
    (/\ listed[i].method = "tools/list"
     /\ calls[j].handler = DeenMateHandlers.call_tool_handler
     /\ calls[j].request \in Range(listed[i].result)
     /\ calls[j].tout = "returns")
      => /\ calls[j].outcome.method # None
         /\ "error" \notin DOMAIN calls[j].response

\* C28: unknown tool name: on both servers a tools/call with valid params
\* whose name is the name of no tool is answered with a result whose isError
\* is true and whose text names the tool, never with an error; and on the
\* base server every fault raised inside a tool handler is turned into a
\* result with isError true, so that tools/call with valid params never
\* yields -32603 there.
C28_UnknownTool ==
  \A j \in 1..Len(calls) :
    /\ calls[j].request \notin Range(handle_list_tools(handlers.tools_handler))
         => /\ DOMAIN calls[j].response = {"jsonrpc", "id", "result"}
            /\ calls[j].response.result.isError
            /\ calls[j].request \in Range(calls[j].response.result.text)
    /\ calls[j].handler = BaseHandlers.call_tool_handler
         => /\ "error" \notin DOMAIN calls[j].response
            /\ calls[j].tout = "raises" => calls[j].response.result.isError

\* C28 witness: the base server has answered tools/call for the tool echo,
\* which it does not have (the ValueError its chain raises for the name is
\* a fault raised inside the handler).
C28_Witness ==
  \E j \in 1..Len(calls) :
    /\ calls[j].handler = BaseHandlers.call_tool_handler
    /\ calls[j].request = "echo"
    /\ calls[j].response.result.isError

\* ------------------------------------------------------------------------
\* Properties of the conversation history
\* ------------------------------------------------------------------------
\* C29: only a successful chat changes the conversation history: a
\* chat_with_llm call whose generation succeeds adds exactly one record and
\* keeps the others; every other request (tools/list, resources/list,
\* resources/read, also of llm://conversations/history, another tool, an
\* unknown method, chat_with_llm without a message, chat_with_llm whose
\* generation raises) leaves the history as it is.
C29_OnlyChatStores ==
  [][/\ completed' = completed + 1
          => /\ HistoryLen(conversation_history') = HistoryLen(conversation_history) + 1
             /\ \A k \in DOMAIN conversation_history :
                  /\ k \in DOMAIN conversation_history'
                  /\ conversation_history'[k] = conversation_history[k]
     /\ completed' = completed => conversation_history' = conversation_history
     /\ (calls' # calls \/ listed' # listed) => completed' = completed
     /\ \A c \in Callers :
          (chats[c].pc = "generating" /\ chats'[c].pc = "idle"
             /\ completed' = completed) => conversation_history' = conversation_history
    ]_vars

\* C29 witness: a chat has been stored and the history has then been read
\* with resources/read, which returned the one record and left it in place.
C29_Witness ==
  /\ HistoryLen(conversation_history) = 1
  /\ completed = 1
  /\ Len(calls) = 1
  /\ calls[1].request = "llm://conversations/history"
  /\ calls[1].method = "resources/read"
  /\ calls[1].response.result.keys = {"chat_0"}

\* ------------------------------------------------------------------------
\* Whitespace in front of a message
\* ------------------------------------------------------------------------
\* C25: whitespace before a message does not block framing: when whitespace
\* has arrived while the buffer was empty, the next complete request is
\* still decoded and answered, so the loop never waits for more input with
\* a buffer that holds whitespace and, behind it, a complete request.
C25_WhitespaceNoBlock ==
  pc = "read" =>
    ~(/\ buffer # <<>>
      /\ buffer[1] \in Whitespace
      /\ raw_decode(lstrip(buffer)).ok
      /\ raw_decode(lstrip(buffer)).obj.kind = "object")

\* ------------------------------------------------------------------------
\* The ids of the lines the bridge writes
\* ------------------------------------------------------------------------
\* C26: every response line the bridge writes to stdout carries the id of
\* the request that was forwarded to produce it, whatever body the
\* downstream returns with status 200.
C26_BridgeLineId ==
  \A i \in 1..Len(stdout) :
    (i <= Len(decoded) /\ decoded[i].kind = "object") =>
      /\ "id" \in DOMAIN stdout[i]
      /\ stdout[i].id = IdOf(decoded[i])

====
